---- MODULE Spec2Model ----
\* Model of the AIC-EEC event bus (aic_event.c, PC simulator build):
\* a per-kind subscriber registry, a ring buffer of queued events and the
\* dispatcher that drains it.  The C statics are the variables; every public
\* function is an operator on the record of those statics and an action
\* that applies it.  Subscriber callbacks are application code: what a
\* callback does when it is invoked (nothing, or one nested call of
\* publish / subscribe / unsubscribe) is chosen nondeterministically.
\* SpecDrain adds a callback that re-publishes the event it was handed and
\* the fairness of the dispatcher's loop; SpecPayload adds a producer that
\* overwrites the object whose address it passed to publish.
\* The mock GPIO (LED states, PWM brightness, buttons), the mock ADC and the
\* logger (aic_log.c) of the simulator are modelled next to it, each with a
\* specification of its own (SpecGpio, SpecButtons, SpecSensors, SpecLog);
\* the parts share no state.
EXTENDS Integers, Sequences, FiniteSets, TLC

\* ------------------------------------------------------------------ sizes
\* The three sizes come from aic_event.h; the model runs them scaled down.
AIC_EVENT_MAX == 2
AIC_EVENT_MAX_SUBSCRIBERS == 2
AIC_EVENT_QUEUE_SIZE == 2
\* Nested API calls that callbacks may make during one top-level call.
MaxReentrant == 1

Kinds == 0 .. (AIC_EVENT_MAX - 1)
\* aic_event_t arguments a caller may pass: every kind and one out of range.
EventArgs == 0 .. AIC_EVENT_MAX
Slots == 0 .. (AIC_EVENT_MAX_SUBSCRIBERS - 1)
Cells == 0 .. (AIC_EVENT_QUEUE_SIZE - 1)

\* Function pointers, contexts and payload pointers; "NULL" is the C NULL.
Callbacks == {"cbA", "cbB", "cbC"}
CallbackArgs == Callbacks \cup {"NULL"}
UserData == {"ctx1", "ctx2"}
\* const aic_event_data_t *data: NULL or a pointer to a payload value.
DataArgs == {"NULL", "d1"}
\* The arguments callers pass.  Kind 0 is exercised in full; the other
\* kinds get one subscriber (cbA, ctx1) and payload-less events.  On kind 0
\* cbA is registered with either context, the other callbacks with ctx1.
\* A kind out of range and a NULL callback are passed too.
SubscribeArgs ==
    {a \in EventArgs \X CallbackArgs \X UserData :
        \/ a[1] = 0 /\ (a[3] = "ctx1" \/ a[2] = "cbA")
        \/ a[1] # 0 /\ a[2] \in {"cbA", "NULL"} /\ a[3] = "ctx1"}
UnsubscribeArgs ==
    {a \in EventArgs \X CallbackArgs : a[1] = 0 \/ a[2] \in {"cbA", "NULL"}}
PublishArgs ==
    {a \in EventArgs \X DataArgs : a[1] = 0 \/ a[2] = "NULL"}

\* ------------------------------------------------- mock GPIO and mock ADC
\* enum aic_led_t: AIC_LED_RED, AIC_LED_GREEN, AIC_LED_BLUE, AIC_LED_COUNT.
AIC_LED_COUNT == 3
Leds == 0 .. (AIC_LED_COUNT - 1)
\* aic_led_t arguments: every LED and one value out of range.
LedArgs == 0 .. AIC_LED_COUNT
\* The values of a uint8_t argument.
Uint8 == 0 .. 255
\* The uint8_t brightness arguments the callers of the model pass.
BrightnessArgs == {0, 1, 50, 100, 101, 255}

\* adc_values[AIC_ADC_CH_COUNT]: AIC_ADC_CH0 .. AIC_ADC_CH3 and AIC_ADC_TEMP.
AIC_ADC_CH_COUNT == 5
Channels == 0 .. (AIC_ADC_CH_COUNT - 1)
\* aic_adc_channel_t arguments: every channel and one value out of range.
ChannelArgs == 0 .. AIC_ADC_CH_COUNT
\* aic_adc_resolution_t: the number of bits, as adc_max_val() uses it.
AIC_ADC_RES_12BIT == 12
Resolutions == {8, 10, AIC_ADC_RES_12BIT}
\* The uint8_t percent arguments the callers of the model pass.
PercentArgs == {0, 75, 100, 255}

\* enum aic_button_t: AIC_BTN_USER, AIC_BTN_USER2, AIC_BTN_COUNT.
AIC_BTN_COUNT == 2
Buttons == 0 .. (AIC_BTN_COUNT - 1)
\* aic_button_t arguments: every button and one value out of range.
ButtonArgs == 0 .. AIC_BTN_COUNT
\* aic_button_callback_t values: NULL or the application's handler.
ButtonCallbacks == {"NULL", "on_press"}

\* ---------------------------------------------------------------- logger
\* The capacity of the log buffer comes from aic_log.h; the model runs it
\* scaled down.
AIC_LOG_QUEUE_SIZE == 2
LogCells == 0 .. (AIC_LOG_QUEUE_SIZE - 1)
\* aic_log_level_t, in the order of level_prefixes[].
AIC_LOG_NONE == 0
AIC_LOG_ERROR == 1
AIC_LOG_WARN == 2
AIC_LOG_INFO == 3
AIC_LOG_DEBUG == 4
AIC_LOG_VERBOSE == 5
Levels == AIC_LOG_NONE .. AIC_LOG_VERBOSE
\* The levels the callers of the model pass: none, one above and one below
\* the default threshold, and the threshold itself.
LevelArgs == {AIC_LOG_NONE, AIC_LOG_ERROR, AIC_LOG_INFO, AIC_LOG_DEBUG}
\* The thresholds the callers of the model set.
ThresholdArgs == {AIC_LOG_NONE, AIC_LOG_INFO, AIC_LOG_VERBOSE}
\* The formatted texts and the tags of the messages.
Texts == {"m1", "m2"}
Tags == {"APP"}
\* dropped_count is a uint32_t; the model stops dropping at this count, far
\* below the value at which the counter wraps.
MaxDropped == 2

\* The payload values the producer's object takes.
PayloadValues == {"d1", "d2"}
\* What the producer passes as data: NULL or the address of its object.
PayloadPtrs == {"NULL", "obj"}

\* A zeroed subscriber_t and a zeroed event_entry_t (memset 0 / static storage).
NullSub == [callback |-> "NULL", user_data |-> "NULL"]
ZeroEntry == [event |-> 0, data |-> "zero", has_data |-> FALSE]

VARIABLES
    event_initialized,  \* static bool event_initialized
    subscribers,        \* static subscriber_t subscribers[MAX][MAX_SUBSCRIBERS]
    subscriber_counts,  \* static uint8_t subscriber_counts[MAX]
    event_buffer,       \* static event_entry_t event_buffer[QUEUE_SIZE]
    buffer_head,        \* next write position
    buffer_tail,        \* next read position
    buffer_count,       \* number of items in buffer
    pc,                 \* "idle", "process" (in the drain loop), "deliver"
    frame,              \* deliver_event's activation: caller, event, data, i
    reent,              \* nested calls made by callbacks in this top-level call
    last,               \* history: the last top-level call, its arguments and result
    regctx,             \* history: the context each callback was last registered with
    pending,            \* history: events accepted by publish, not yet popped
    owed,               \* history: entries queued when process() started, not yet popped
    disp,               \* history: the dispatch in progress or just finished
    led_states,         \* gpio mock: static bool led_states[AIC_LED_COUNT]
    led_brightness,     \* gpio mock: static uint8_t led_brightness[AIC_LED_COUNT]
    glast,              \* history: the last call into the gpio mock
    adc_values,         \* sensors mock: static uint16_t adc_values[AIC_ADC_CH_COUNT]
    adc_resolution,     \* sensors mock: static aic_adc_resolution_t adc_resolution
    slast,              \* history: the last call into the sensors mock
    btn_states,         \* gpio mock: static bool btn_states[AIC_BTN_COUNT]
    btn_was_pressed,    \* gpio mock: static bool btn_was_pressed[AIC_BTN_COUNT]
    btn_callbacks,      \* gpio mock: static aic_button_callback_t btn_callbacks[]
    edge,               \* history: released-to-pressed transitions not yet polled
    app_data,           \* the producer's own aic_event_data_t object
    stale,              \* history: the cell's occupant overwrote one with a payload
    log_initialized,    \* logger: static bool log_initialized
    current_level,      \* logger: static aic_log_level_t current_level
    log_buffer,         \* logger: static log_entry_t log_buffer[AIC_LOG_QUEUE_SIZE]
    buf_head,           \* logger: next write position
    buf_tail,           \* logger: next read position
    buf_count,          \* logger: number of entries in buffer
    dropped_count,      \* logger: static uint32_t dropped_count
    llast,              \* history: the last call into the logger
    processed           \* history: the entries the last call handed to the output

busvars == <<event_initialized, subscribers, subscriber_counts, event_buffer,
             buffer_head, buffer_tail, buffer_count>>
\* The event bus with its history, the gpio mock, the sensors mock.
eventvars == <<event_initialized, subscribers, subscriber_counts, event_buffer,
               buffer_head, buffer_tail, buffer_count, pc, frame, reent, last,
               regctx, pending, owed, disp>>
gpiovars == <<led_states, led_brightness, glast, btn_states, btn_was_pressed,
              btn_callbacks, edge>>
sensorvars == <<adc_values, adc_resolution, slast>>
appvars == <<app_data, stale>>
logvars == <<log_initialized, current_level, log_buffer, buf_head, buf_tail,
             buf_count, dropped_count, llast, processed>>
\* What the steps of one part leave alone: the variables of the other parts.
notevent == <<appvars, gpiovars, sensorvars, logvars>>
notgpio == <<eventvars, appvars, sensorvars, logvars>>
notsensors == <<eventvars, appvars, gpiovars, logvars>>
notlog == <<eventvars, appvars, gpiovars, sensorvars>>
mockvars == <<gpiovars, sensorvars, logvars>>
vars == <<event_initialized, subscribers, subscriber_counts, event_buffer,
          buffer_head, buffer_tail, buffer_count, pc, frame, reent, last,
          regctx, pending, owed, disp, led_states, led_brightness, glast,
          adc_values, adc_resolution, slast, btn_states, btn_was_pressed,
          btn_callbacks, edge, app_data, stale, log_initialized, current_level,
          log_buffer, buf_head, buf_tail, buf_count, dropped_count, llast,
          processed>>

\* The statics as one record, so that the C functions are operators on it.
Bus ==
    [event_initialized |-> event_initialized,
     subscribers |-> subscribers,
     subscriber_counts |-> subscriber_counts,
     event_buffer |-> event_buffer,
     buffer_head |-> buffer_head,
     buffer_tail |-> buffer_tail,
     buffer_count |-> buffer_count]

SetBus(b) ==
    /\ event_initialized' = b.event_initialized
    /\ subscribers' = b.subscribers
    /\ subscriber_counts' = b.subscriber_counts
    /\ event_buffer' = b.event_buffer
    /\ buffer_head' = b.buffer_head
    /\ buffer_tail' = b.buffer_tail
    /\ buffer_count' = b.buffer_count

\* ---------------------------------------------------------- ring buffer
\* buffer_push with the capacity test off by one (> for >=).
buffer_push_offbyone(b, entry) ==
    IF b.buffer_count > AIC_EVENT_QUEUE_SIZE
    THEN [bus |-> b, ret |-> FALSE]
    ELSE [bus |-> [b EXCEPT
                     !.event_buffer = [@ EXCEPT ![b.buffer_head] = entry],
                     !.buffer_head = (b.buffer_head + 1) % AIC_EVENT_QUEUE_SIZE,
                     !.buffer_count = b.buffer_count + 1],
          ret |-> TRUE]

\* static bool buffer_push(const event_entry_t *entry)
buffer_push(b, entry) ==
    IF b.buffer_count >= AIC_EVENT_QUEUE_SIZE
    THEN [bus |-> b, ret |-> FALSE]
    ELSE [bus |-> [b EXCEPT
                     !.event_buffer = [@ EXCEPT ![b.buffer_head] = entry],
                     !.buffer_head = (b.buffer_head + 1) % AIC_EVENT_QUEUE_SIZE,
                     !.buffer_count = b.buffer_count + 1],
          ret |-> TRUE]

\* buffer_pop that advances the tail without wrapping it.
buffer_pop_nowrap(b) ==
    IF b.buffer_count = 0
    THEN [bus |-> b, ret |-> FALSE, entry |-> ZeroEntry]
    ELSE [bus |-> [b EXCEPT
                     !.buffer_tail = b.buffer_tail + 1,
                     !.buffer_count = b.buffer_count - 1],
          ret |-> TRUE,
          entry |-> b.event_buffer[b.buffer_tail]]

\* buffer_pop taking the newest entry (the cell before head) instead of the oldest.
buffer_pop_newest(b) ==
    IF b.buffer_count = 0
    THEN [bus |-> b, ret |-> FALSE, entry |-> ZeroEntry]
    ELSE LET c == (b.buffer_head + AIC_EVENT_QUEUE_SIZE - 1) % AIC_EVENT_QUEUE_SIZE
         IN [bus |-> [b EXCEPT
                        !.buffer_head = c,
                        !.buffer_count = b.buffer_count - 1],
             ret |-> TRUE,
             entry |-> b.event_buffer[c]]

\* static bool buffer_pop(event_entry_t *entry); entry is written on success only.
buffer_pop(b) ==
    IF b.buffer_count = 0
    THEN [bus |-> b, ret |-> FALSE, entry |-> ZeroEntry]
    ELSE [bus |-> [b EXCEPT
                     !.buffer_tail = (b.buffer_tail + 1) % AIC_EVENT_QUEUE_SIZE,
                     !.buffer_count = b.buffer_count - 1],
          ret |-> TRUE,
          entry |-> b.event_buffer[b.buffer_tail]]

\* ------------------------------------------------------------ lifecycle
\* aic_event_init without the test of event_initialized: every call resets.
aic_event_init_reset(b) ==
    [bus |-> [event_initialized |-> TRUE,
              subscribers |-> [k \in Kinds |-> [s \in Slots |-> NullSub]],
              subscriber_counts |-> [k \in Kinds |-> 0],
              event_buffer |-> [c \in Cells |-> ZeroEntry],
              buffer_head |-> 0,
              buffer_tail |-> 0,
              buffer_count |-> 0],
     ret |-> TRUE]

\* bool aic_event_init(void)
aic_event_init(b) ==
    IF b.event_initialized
    THEN [bus |-> b, ret |-> TRUE]
    ELSE [bus |-> [event_initialized |-> TRUE,
                   subscribers |-> [k \in Kinds |-> [s \in Slots |-> NullSub]],
                   subscriber_counts |-> [k \in Kinds |-> 0],
                   event_buffer |-> [c \in Cells |-> ZeroEntry],
                   buffer_head |-> 0,
                   buffer_tail |-> 0,
                   buffer_count |-> 0],
          ret |-> TRUE]

\* aic_event_deinit that leaves the registry as it is.
aic_event_deinit_keepsubs(b) ==
    IF ~b.event_initialized
    THEN b
    ELSE [b EXCEPT
            !.buffer_head = 0,
            !.buffer_tail = 0,
            !.buffer_count = 0,
            !.event_initialized = FALSE]

\* aic_event_deinit that forgets to reset the ring buffer.
aic_event_deinit_keepqueue(b) ==
    IF ~b.event_initialized
    THEN b
    ELSE [b EXCEPT
            !.subscribers = [k \in Kinds |-> [s \in Slots |-> NullSub]],
            !.subscriber_counts = [k \in Kinds |-> 0],
            !.event_initialized = FALSE]

\* void aic_event_deinit(void): the buffer's cells are left as they are.
aic_event_deinit(b) ==
    IF ~b.event_initialized
    THEN b
    ELSE [b EXCEPT
            !.buffer_head = 0,
            !.buffer_tail = 0,
            !.buffer_count = 0,
            !.subscribers = [k \in Kinds |-> [s \in Slots |-> NullSub]],
            !.subscriber_counts = [k \in Kinds |-> 0],
            !.event_initialized = FALSE]

\* ------------------------------------------------------------- registry
\* The index of the first slot below the count that holds callback, or -1:
\* the search loop of subscribe and of unsubscribe.
FindSlot(b, event, callback) ==
    LET hits == {i \in Slots : /\ i < b.subscriber_counts[event]
                               /\ b.subscribers[event][i].callback = callback}
    IN IF hits = {} THEN -1 ELSE CHOOSE i \in hits : \A j \in hits : i <= j

\* aic_event_subscribe without the search for an existing registration.
aic_event_subscribe_nosearch(b, event, callback, user_data) ==
    IF event >= AIC_EVENT_MAX \/ callback = "NULL"
    THEN [bus |-> b, ret |-> FALSE]
    ELSE IF ~b.event_initialized
    THEN [bus |-> b, ret |-> FALSE]
    ELSE LET n == b.subscriber_counts[event]
         IN IF n < AIC_EVENT_MAX_SUBSCRIBERS
            THEN [bus |-> [b EXCEPT
                             !.subscribers[event][n] =
                                 [callback |-> callback, user_data |-> user_data],
                             !.subscriber_counts[event] = n + 1],
                  ret |-> TRUE]
            ELSE [bus |-> b, ret |-> FALSE]

\* aic_event_subscribe that finds the registration and keeps its old user_data.
aic_event_subscribe_keepctx(b, event, callback, user_data) ==
    IF event >= AIC_EVENT_MAX \/ callback = "NULL"
    THEN [bus |-> b, ret |-> FALSE]
    ELSE IF ~b.event_initialized
    THEN [bus |-> b, ret |-> FALSE]
    ELSE LET i == FindSlot(b, event, callback)
             n == b.subscriber_counts[event]
         IN IF i >= 0
            THEN [bus |-> b, ret |-> TRUE]
            ELSE IF n < AIC_EVENT_MAX_SUBSCRIBERS
            THEN [bus |-> [b EXCEPT
                             !.subscribers[event][n] =
                                 [callback |-> callback, user_data |-> user_data],
                             !.subscriber_counts[event] = n + 1],
                  ret |-> TRUE]
            ELSE [bus |-> b, ret |-> FALSE]

\* aic_event_subscribe with the capacity test before the search.
aic_event_subscribe_fullfirst(b, event, callback, user_data) ==
    IF event >= AIC_EVENT_MAX \/ callback = "NULL"
    THEN [bus |-> b, ret |-> FALSE]
    ELSE IF ~b.event_initialized
    THEN [bus |-> b, ret |-> FALSE]
    ELSE LET i == FindSlot(b, event, callback)
             n == b.subscriber_counts[event]
         IN IF n >= AIC_EVENT_MAX_SUBSCRIBERS
            THEN [bus |-> b, ret |-> FALSE]
            ELSE IF i >= 0
            THEN [bus |-> [b EXCEPT !.subscribers[event][i].user_data = user_data],
                  ret |-> TRUE]
            ELSE [bus |-> [b EXCEPT
                             !.subscribers[event][n] =
                                 [callback |-> callback, user_data |-> user_data],
                             !.subscriber_counts[event] = n + 1],
                  ret |-> TRUE]

\* aic_event_subscribe without the test of event_initialized.
aic_event_subscribe_noinitcheck(b, event, callback, user_data) ==
    IF event >= AIC_EVENT_MAX \/ callback = "NULL"
    THEN [bus |-> b, ret |-> FALSE]
    ELSE LET i == FindSlot(b, event, callback)
             n == b.subscriber_counts[event]
         IN IF i >= 0
            THEN [bus |-> [b EXCEPT !.subscribers[event][i].user_data = user_data],
                  ret |-> TRUE]
            ELSE IF n < AIC_EVENT_MAX_SUBSCRIBERS
            THEN [bus |-> [b EXCEPT
                             !.subscribers[event][n] =
                                 [callback |-> callback, user_data |-> user_data],
                             !.subscriber_counts[event] = n + 1],
                  ret |-> TRUE]
            ELSE [bus |-> b, ret |-> FALSE]

\* bool aic_event_subscribe(aic_event_t event, aic_event_cb_t callback, void *user_data)
aic_event_subscribe(b, event, callback, user_data) ==
    IF event >= AIC_EVENT_MAX \/ callback = "NULL"
    THEN [bus |-> b, ret |-> FALSE]
    ELSE IF ~b.event_initialized
    THEN [bus |-> b, ret |-> FALSE]
    ELSE LET i == FindSlot(b, event, callback)
             n == b.subscriber_counts[event]
         IN IF i >= 0
            THEN [bus |-> [b EXCEPT !.subscribers[event][i].user_data = user_data],
                  ret |-> TRUE]
            ELSE IF n < AIC_EVENT_MAX_SUBSCRIBERS
            THEN [bus |-> [b EXCEPT
                             !.subscribers[event][n] =
                                 [callback |-> callback, user_data |-> user_data],
                             !.subscriber_counts[event] = n + 1],
                  ret |-> TRUE]
            ELSE [bus |-> b, ret |-> FALSE]

\* aic_event_unsubscribe without the shift: it drops the last slot.
aic_event_unsubscribe_noshift(b, event, callback) ==
    IF event >= AIC_EVENT_MAX \/ callback = "NULL"
    THEN [bus |-> b, ret |-> FALSE]
    ELSE IF ~b.event_initialized
    THEN [bus |-> b, ret |-> FALSE]
    ELSE LET i == FindSlot(b, event, callback)
             n == b.subscriber_counts[event]
         IN IF i >= 0
            THEN [bus |-> [b EXCEPT
                             !.subscribers[event][n - 1] = NullSub,
                             !.subscriber_counts[event] = n - 1],
                  ret |-> TRUE]
            ELSE [bus |-> b, ret |-> FALSE]

\* bool aic_event_unsubscribe(aic_event_t event, aic_event_cb_t callback)
aic_event_unsubscribe(b, event, callback) ==
    IF event >= AIC_EVENT_MAX \/ callback = "NULL"
    THEN [bus |-> b, ret |-> FALSE]
    ELSE IF ~b.event_initialized
    THEN [bus |-> b, ret |-> FALSE]
    ELSE LET i == FindSlot(b, event, callback)
             n == b.subscriber_counts[event]
             old == b.subscribers[event]
         IN IF i >= 0
            THEN [bus |-> [b EXCEPT
                             !.subscribers[event] =
                                 [j \in Slots |->
                                     IF j < i THEN old[j]
                                     ELSE IF j < n - 1 THEN old[j + 1]
                                     ELSE IF j = n - 1 THEN NullSub
                                     ELSE old[j]],
                             !.subscriber_counts[event] = n - 1],
                  ret |-> TRUE]
            ELSE [bus |-> b, ret |-> FALSE]

\* aic_event_unsubscribe_all that also throws away what is queued.
aic_event_unsubscribe_all_purge(b, event) ==
    IF event >= AIC_EVENT_MAX
    THEN b
    ELSE IF ~b.event_initialized
    THEN b
    ELSE [b EXCEPT
            !.subscribers[event] = [s \in Slots |-> NullSub],
            !.subscriber_counts[event] = 0,
            !.buffer_head = 0,
            !.buffer_tail = 0,
            !.buffer_count = 0]

\* void aic_event_unsubscribe_all(aic_event_t event)
aic_event_unsubscribe_all(b, event) ==
    IF event >= AIC_EVENT_MAX
    THEN b
    ELSE IF ~b.event_initialized
    THEN b
    ELSE [b EXCEPT
            !.subscribers[event] = [s \in Slots |-> NullSub],
            !.subscriber_counts[event] = 0]

\* uint8_t aic_event_subscriber_count(aic_event_t event)
aic_event_subscriber_count(b, event) ==
    IF event >= AIC_EVENT_MAX THEN 0 ELSE b.subscriber_counts[event]

\* uint32_t aic_event_queue_count(void)
aic_event_queue_count(b) == b.buffer_count

\* -------------------------------------------------------------- publish
\* The entry publish builds: the designated initializer zeroes data, memcpy
\* fills it when data is not NULL.
MakeEntry(event, data) ==
    [event |-> event,
     data |-> IF data = "NULL" THEN "zero" ELSE data,
     has_data |-> (data # "NULL")]

\* aic_event_publish that reports success whether or not the push succeeded.
aic_event_publish_swallow(b, event, data) ==
    IF event >= AIC_EVENT_MAX
    THEN [bus |-> b, ret |-> FALSE, deliver |-> FALSE]
    ELSE IF b.subscriber_counts[event] = 0
    THEN [bus |-> b, ret |-> TRUE, deliver |-> FALSE]
    ELSE IF ~b.event_initialized
    THEN [bus |-> b, ret |-> TRUE, deliver |-> TRUE]
    ELSE LET r == buffer_push(b, MakeEntry(event, data))
         IN [bus |-> r.bus, ret |-> TRUE, deliver |-> FALSE]

\* aic_event_publish without the no-subscriber shortcut.
aic_event_publish_noshortcut(b, event, data) ==
    IF event >= AIC_EVENT_MAX
    THEN [bus |-> b, ret |-> FALSE, deliver |-> FALSE]
    ELSE IF ~b.event_initialized
    THEN [bus |-> b, ret |-> TRUE, deliver |-> TRUE]
    ELSE LET r == buffer_push(b, MakeEntry(event, data))
         IN [bus |-> r.bus, ret |-> r.ret, deliver |-> FALSE]

\* aic_event_publish reporting success for a kind out of range.
aic_event_publish_rangeok(b, event, data) ==
    IF event >= AIC_EVENT_MAX
    THEN [bus |-> b, ret |-> TRUE, deliver |-> FALSE]
    ELSE IF b.subscriber_counts[event] = 0
    THEN [bus |-> b, ret |-> TRUE, deliver |-> FALSE]
    ELSE IF ~b.event_initialized
    THEN [bus |-> b, ret |-> TRUE, deliver |-> TRUE]
    ELSE LET r == buffer_push(b, MakeEntry(event, data))
         IN [bus |-> r.bus, ret |-> r.ret, deliver |-> FALSE]

\* aic_event_publish failing, like subscribe, when the bus is not initialized.
aic_event_publish_uninitfalse(b, event, data) ==
    IF event >= AIC_EVENT_MAX
    THEN [bus |-> b, ret |-> FALSE, deliver |-> FALSE]
    ELSE IF ~b.event_initialized
    THEN [bus |-> b, ret |-> FALSE, deliver |-> FALSE]
    ELSE IF b.subscriber_counts[event] = 0
    THEN [bus |-> b, ret |-> TRUE, deliver |-> FALSE]
    ELSE LET r == buffer_push(b, MakeEntry(event, data))
         IN [bus |-> r.bus, ret |-> r.ret, deliver |-> FALSE]

\* aic_event_publish that dispatches at once on an initialized bus too,
\* instead of queueing.
aic_event_publish_eager(b, event, data) ==
    IF event >= AIC_EVENT_MAX
    THEN [bus |-> b, ret |-> FALSE, deliver |-> FALSE]
    ELSE IF b.subscriber_counts[event] = 0
    THEN [bus |-> b, ret |-> TRUE, deliver |-> FALSE]
    ELSE [bus |-> b, ret |-> TRUE, deliver |-> TRUE]

\* bool aic_event_publish(aic_event_t event, const aic_event_data_t *data).
\* deliver says that the call went into deliver_event(event, data) before
\* returning true (the not-initialized branch).
aic_event_publish(b, event, data) ==
    IF event >= AIC_EVENT_MAX
    THEN [bus |-> b, ret |-> FALSE, deliver |-> FALSE]
    ELSE IF b.subscriber_counts[event] = 0
    THEN [bus |-> b, ret |-> TRUE, deliver |-> FALSE]
    ELSE IF ~b.event_initialized
    THEN [bus |-> b, ret |-> TRUE, deliver |-> TRUE]
    ELSE LET r == buffer_push(b, MakeEntry(event, data))
         IN [bus |-> r.bus, ret |-> r.ret, deliver |-> FALSE]

\* void aic_event_publish_immediate(aic_event_t event, const aic_event_data_t *data):
\* the range test, then deliver_event(event, data); the statics are not
\* touched by the function itself.
aic_event_publish_immediate(b, event, data) ==
    IF event >= AIC_EVENT_MAX
    THEN [bus |-> b, deliver |-> FALSE]
    ELSE [bus |-> b, deliver |-> TRUE]

\* ------------------------------------------------------- history helpers
\* The history variables record what callers saw, from the calls' arguments
\* and return values alone; no operator of the bus reads them.
RetOf(ok) == IF ok THEN "true" ELSE "false"
Call(op, event, ret, was) ==
    [op |-> op, event |-> event, callback |-> "NULL", ret |-> ret, was |-> was]
CallCb(op, event, callback, ret, was) ==
    [op |-> op, event |-> event, callback |-> callback, ret |-> ret, was |-> was]
NoFrame == [caller |-> "none", event |-> 0, data |-> "NULL", i |-> 0]
NoEvent == [event |-> -1, data |-> "NULL"]
NoDisp ==
    [caller |-> "none", got |-> NoEvent, expected |-> NoEvent,
     expect |-> <<>>, invoked |-> <<>>, done |-> FALSE, missed |-> FALSE,
     q0 |-> <<>>, late |-> FALSE]
NoReg == [k \in Kinds |-> [c \in Callbacks |-> "none"]]

\* The callbacks registered for event in b, in slot order.
Registered(b, event) ==
    IF event \notin Kinds
    THEN <<>>
    ELSE [n \in 1 .. b.subscriber_counts[event] |->
              b.subscribers[event][n - 1].callback]

Range(seq) == {seq[n] : n \in DOMAIN seq}

\* The queued events, oldest first, as (event, payload pointer) pairs.
QueueSeq(b) ==
    [n \in 1 .. b.buffer_count |->
        LET e == b.event_buffer[(b.buffer_tail + n - 1) % AIC_EVENT_QUEUE_SIZE]
        IN [event |-> e.event, data |-> IF e.has_data THEN e.data ELSE "NULL"]]

\* A new dispatch of (event, data) on behalf of caller, on bus b; q0 is the
\* queue as the dispatch finds it.
NewDisp(caller, b, event, data, expected) ==
    [caller |-> caller,
     got |-> [event |-> event, data |-> data],
     expected |-> expected,
     expect |-> Registered(b, event),
     invoked |-> <<>>,
     done |-> FALSE,
     missed |-> disp.missed,
     q0 |-> QueueSeq(b),
     late |-> FALSE]

\* publish accepted an event for later delivery: it returned true for a kind
\* with subscribers without delivering it itself.
Accepted(b, r, event) ==
    /\ event < AIC_EVENT_MAX
    /\ b.subscriber_counts[event] > 0
    /\ r.ret
    /\ ~r.deliver

\* The context callback is registered with for event, as its callers know it:
\* "none" when it is not registered, "n/a" for arguments that name no
\* registration.
WasReg(event, callback) ==
    IF event \in Kinds /\ callback \in Callbacks
    THEN regctx[event][callback]
    ELSE "n/a"

RegSubscribed(event, callback, user_data, ok) ==
    IF ok /\ event \in Kinds /\ callback \in Callbacks
    THEN [regctx EXCEPT ![event][callback] = user_data]
    ELSE regctx

RegUnsubscribed(event, callback, ok) ==
    IF ok /\ event \in Kinds /\ callback \in Callbacks
    THEN [regctx EXCEPT ![event][callback] = "none"]
    ELSE regctx

\* A zeroed log_entry_t and the record of a call into the logger.
ZeroLogEntry == [level |-> AIC_LOG_NONE, tag |-> "none", text |-> "zero"]
LogCall(op, level, outcome) == [op |-> op, level |-> level, outcome |-> outcome]

\* ----------------------------------------------------------------- Init
\* The statics before any call: zero-initialised storage.
Init ==
    /\ event_initialized = FALSE
    /\ subscribers = [k \in Kinds |-> [s \in Slots |-> NullSub]]
    /\ subscriber_counts = [k \in Kinds |-> 0]
    /\ event_buffer = [c \in Cells |-> ZeroEntry]
    /\ buffer_head = 0
    /\ buffer_tail = 0
    /\ buffer_count = 0
    /\ pc = "idle"
    /\ frame = NoFrame
    /\ reent = 0
    /\ last = Call("none", -1, "void", "n/a")
    /\ regctx = NoReg
    /\ pending = <<>>
    /\ owed = <<>>
    /\ disp = NoDisp
    /\ led_states = [l \in Leds |-> FALSE]
    /\ led_brightness = [l \in Leds |-> 0]
    /\ glast = [op |-> "none", led |-> 0, arg |-> 0]
    /\ adc_values = [c \in Channels |-> 0]
    /\ adc_resolution = AIC_ADC_RES_12BIT
    /\ slast = [op |-> "none", channel |-> 0, arg |-> 0]
    /\ btn_states = [b \in Buttons |-> FALSE]
    /\ btn_was_pressed = [b \in Buttons |-> FALSE]
    /\ btn_callbacks = [b \in Buttons |-> "NULL"]
    /\ edge = [b \in Buttons |-> FALSE]
    /\ app_data = "d1"
    /\ stale = [c \in Cells |-> FALSE]
    /\ log_initialized = FALSE
    /\ current_level = AIC_LOG_INFO
    /\ log_buffer = [c \in LogCells |-> ZeroLogEntry]
    /\ buf_head = 0
    /\ buf_tail = 0
    /\ buf_count = 0
    /\ dropped_count = 0
    /\ llast = LogCall("none", AIC_LOG_NONE, "n/a")
    /\ processed = <<>>

\* ------------------------------------------------------ top-level calls
\* What every top-level call does to the history of the previous one.
Enter ==
    /\ pc = "idle"
    /\ reent' = 0
    /\ owed' = <<>>

InitCall ==
    /\ Enter
    /\ LET r == aic_event_init(Bus)
       IN /\ SetBus(r.bus)
          /\ last' = Call("init", -1, RetOf(r.ret), "n/a")
    /\ disp' = NoDisp
    /\ UNCHANGED <<pc, frame, pending, regctx>>

DeinitCall ==
    /\ Enter
    /\ SetBus(aic_event_deinit(Bus))
    /\ last' = Call("deinit", -1, "void",
                    IF aic_event_queue_count(Bus) > 0 THEN "queued" ELSE "n/a")
    /\ pending' = IF event_initialized THEN <<>> ELSE pending
    /\ regctx' = IF event_initialized THEN NoReg ELSE regctx
    /\ disp' = NoDisp
    /\ UNCHANGED <<pc, frame>>

Subscribe(event, callback, user_data) ==
    /\ Enter
    /\ LET r == aic_event_subscribe(Bus, event, callback, user_data)
       IN /\ SetBus(r.bus)
          /\ last' = CallCb("subscribe", event, callback, RetOf(r.ret),
                          WasReg(event, callback))
          /\ regctx' = RegSubscribed(event, callback, user_data, r.ret)
    /\ disp' = NoDisp
    /\ UNCHANGED <<pc, frame, pending>>

Unsubscribe(event, callback) ==
    /\ Enter
    /\ LET r == aic_event_unsubscribe(Bus, event, callback)
       IN /\ SetBus(r.bus)
          /\ last' = CallCb("unsubscribe", event, callback, RetOf(r.ret),
                          WasReg(event, callback))
          /\ regctx' = RegUnsubscribed(event, callback, r.ret)
    /\ disp' = NoDisp
    /\ UNCHANGED <<pc, frame, pending>>

UnsubscribeAll(event) ==
    /\ Enter
    /\ SetBus(aic_event_unsubscribe_all(Bus, event))
    /\ last' = Call("unsubscribe_all", event, "void", "n/a")
    /\ regctx' = IF event_initialized /\ event \in Kinds
                 THEN [regctx EXCEPT ![event] = [c \in Callbacks |-> "none"]]
                 ELSE regctx
    /\ disp' = NoDisp
    /\ UNCHANGED <<pc, frame, pending>>

\* aic_event_publish: returns at once, except in the not-initialized branch,
\* where it runs deliver_event before it returns true.
Publish(event, data) ==
    /\ Enter
    /\ LET r == aic_event_publish(Bus, event, data)
       IN /\ SetBus(r.bus)
          /\ IF r.deliver
             THEN /\ pc' = "deliver"
                  /\ frame' = [caller |-> "publish", event |-> event,
                               data |-> data, i |-> 0]
                  /\ disp' = [NewDisp("publish", Bus, event, data, NoEvent)
                                  EXCEPT !.missed = FALSE]
                  /\ last' = Call("publish", event, "running", "n/a")
                  /\ UNCHANGED pending
             ELSE /\ last' = Call("publish", event, RetOf(r.ret), "n/a")
                  /\ pending' = IF Accepted(Bus, r, event)
                                THEN Append(pending, [event |-> event, data |-> data])
                                ELSE pending
                  /\ disp' = NoDisp
                  /\ UNCHANGED <<pc, frame>>
    /\ UNCHANGED regctx

\* aic_event_publish_immediate: returns at once for a kind out of range,
\* otherwise runs deliver_event before it returns.
PublishImmediate(event, data) ==
    /\ Enter
    /\ LET r == aic_event_publish_immediate(Bus, event, data)
       IN /\ SetBus(r.bus)
          /\ IF ~r.deliver
             THEN /\ last' = Call("publish_immediate", event, "void", "n/a")
                  /\ disp' = NoDisp
                  /\ UNCHANGED <<pc, frame>>
             ELSE /\ pc' = "deliver"
                  /\ frame' = [caller |-> "immediate", event |-> event,
                               data |-> data, i |-> 0]
                  /\ disp' = [NewDisp("immediate", Bus, event, data, NoEvent)
                                  EXCEPT !.missed = FALSE]
                  /\ last' = Call("publish_immediate", event, "running", "n/a")
    /\ UNCHANGED <<pending, regctx>>

\* void aic_event_process(void): the call and its early return.
ProcessCall ==
    /\ pc = "idle"
    /\ reent' = 0
    /\ disp' = NoDisp
    /\ IF ~event_initialized
       THEN /\ last' = Call("process", -1, "void", "n/a")
            /\ owed' = <<>>
            /\ UNCHANGED pc
       ELSE /\ last' = Call("process", -1, "running", "n/a")
            /\ owed' = pending
            /\ pc' = "process"
    /\ UNCHANGED <<busvars, frame, pending, regctx>>

\* A process() for a queue that keeps the producer's pointer instead of a
\* copy: the callbacks get the producer's object as it is at the dispatch.
ProcessPop_byref ==
    /\ pc = "process"
    /\ LET r == buffer_pop(Bus)
       IN /\ SetBus(r.bus)
          /\ IF r.ret
             THEN LET data == IF r.entry.has_data THEN app_data ELSE "NULL"
                  IN /\ pc' = "deliver"
                     /\ frame' = [caller |-> "process", event |-> r.entry.event,
                                  data |-> data, i |-> 0]
                     /\ disp' = [NewDisp("process", r.bus, r.entry.event, data,
                                         IF pending = <<>> THEN NoEvent
                                         ELSE Head(pending))
                                     EXCEPT !.late = (owed = <<>>)]
                     /\ pending' = IF pending = <<>> THEN pending ELSE Tail(pending)
                     /\ owed' = IF owed = <<>> THEN owed ELSE Tail(owed)
                     /\ UNCHANGED last
             ELSE /\ pc' = "idle"
                  /\ last' = [last EXCEPT !.ret = "void"]
                  /\ disp' = [NoDisp EXCEPT !.missed = disp.missed]
                  /\ UNCHANGED <<frame, pending, owed>>
    /\ UNCHANGED <<reent, regctx>>

\* A process() that handles one entry per call (if for while): after one
\* dispatch it returns, whatever is still queued.
ProcessPop_once ==
    /\ pc = "process"
    /\ LET r == IF disp.done
                THEN [bus |-> Bus, ret |-> FALSE, entry |-> ZeroEntry]
                ELSE buffer_pop(Bus)
       IN /\ SetBus(r.bus)
          /\ IF r.ret
             THEN LET data == IF r.entry.has_data THEN r.entry.data ELSE "NULL"
                  IN /\ pc' = "deliver"
                     /\ frame' = [caller |-> "process", event |-> r.entry.event,
                                  data |-> data, i |-> 0]
                     /\ disp' = [NewDisp("process", r.bus, r.entry.event, data,
                                         IF pending = <<>> THEN NoEvent
                                         ELSE Head(pending))
                                     EXCEPT !.late = (owed = <<>>)]
                     /\ pending' = IF pending = <<>> THEN pending ELSE Tail(pending)
                     /\ owed' = IF owed = <<>> THEN owed ELSE Tail(owed)
                     /\ UNCHANGED last
             ELSE /\ pc' = "idle"
                  /\ last' = [last EXCEPT !.ret = "void"]
                  /\ disp' = [NoDisp EXCEPT !.missed = disp.missed]
                  /\ UNCHANGED <<frame, pending, owed>>
    /\ UNCHANGED <<reent, regctx>>

\* A drain loop that handles only the entries that were queued when process()
\* was called and returns when those are done.
ProcessPop_snapshot ==
    /\ pc = "process"
    /\ LET r == IF owed = <<>>
                THEN [bus |-> Bus, ret |-> FALSE, entry |-> ZeroEntry]
                ELSE buffer_pop(Bus)
       IN /\ SetBus(r.bus)
          /\ IF r.ret
             THEN LET data == IF r.entry.has_data THEN r.entry.data ELSE "NULL"
                  IN /\ pc' = "deliver"
                     /\ frame' = [caller |-> "process", event |-> r.entry.event,
                                  data |-> data, i |-> 0]
                     /\ disp' = [NewDisp("process", r.bus, r.entry.event, data,
                                         IF pending = <<>> THEN NoEvent
                                         ELSE Head(pending))
                                     EXCEPT !.late = (owed = <<>>)]
                     /\ pending' = IF pending = <<>> THEN pending ELSE Tail(pending)
                     /\ owed' = IF owed = <<>> THEN owed ELSE Tail(owed)
                     /\ UNCHANGED last
             ELSE /\ pc' = "idle"
                  /\ last' = [last EXCEPT !.ret = "void"]
                  /\ disp' = [NoDisp EXCEPT !.missed = disp.missed]
                  /\ UNCHANGED <<frame, pending, owed>>
    /\ UNCHANGED <<reent, regctx>>

\* One test of while (buffer_pop(&entry)): a popped entry goes to
\* deliver_event, an empty buffer ends the call.
ProcessPop ==
    /\ pc = "process"
    /\ LET r == buffer_pop(Bus)
       IN /\ SetBus(r.bus)
          /\ IF r.ret
             THEN LET data == IF r.entry.has_data THEN r.entry.data ELSE "NULL"
                  IN /\ pc' = "deliver"
                     /\ frame' = [caller |-> "process", event |-> r.entry.event,
                                  data |-> data, i |-> 0]
                     /\ disp' = [NewDisp("process", r.bus, r.entry.event, data,
                                         IF pending = <<>> THEN NoEvent
                                         ELSE Head(pending))
                                     EXCEPT !.late = (owed = <<>>)]
                     /\ pending' = IF pending = <<>> THEN pending ELSE Tail(pending)
                     /\ owed' = IF owed = <<>> THEN owed ELSE Tail(owed)
                     /\ UNCHANGED last
             ELSE /\ pc' = "idle"
                  /\ last' = [last EXCEPT !.ret = "void"]
                  /\ disp' = [NoDisp EXCEPT !.missed = disp.missed]
                  /\ UNCHANGED <<frame, pending, owed>>
    /\ UNCHANGED <<reent, regctx>>

\* ------------------------------------------------------- deliver_event
\* The loop test of deliver_event: for (i = 0; i < subscriber_counts[event]; i++),
\* read again before every iteration.
DeliverMore ==
    /\ frame.event < AIC_EVENT_MAX
    /\ frame.i < subscriber_counts[frame.event]

\* What the callback invoked by deliver_event does before it returns:
\* nothing, or one nested call into the bus.
CallbackBody ==
    \/ /\ UNCHANGED <<busvars, pending, reent, regctx>>
    \/ /\ reent < MaxReentrant
       /\ reent' = reent + 1
       /\ \E a \in PublishArgs :
             LET event == a[1]
                 data == a[2]
                 r == aic_event_publish(Bus, event, data)
             IN /\ event \in Kinds
                /\ ~r.deliver
                /\ SetBus(r.bus)
                /\ pending' = IF Accepted(Bus, r, event)
                              THEN Append(pending, [event |-> event, data |-> data])
                              ELSE pending
       /\ UNCHANGED regctx
    \/ /\ reent < MaxReentrant
       /\ reent' = reent + 1
       /\ \E a \in UnsubscribeArgs :
             LET r == aic_event_unsubscribe(Bus, a[1], a[2])
             IN /\ a[1] \in Kinds
                /\ a[2] \in Callbacks
                /\ SetBus(r.bus)
                /\ regctx' = RegUnsubscribed(a[1], a[2], r.ret)
       /\ UNCHANGED pending
    \/ /\ reent < MaxReentrant
       /\ reent' = reent + 1
       /\ \E a \in SubscribeArgs :
             LET r == aic_event_subscribe(Bus, a[1], a[2], a[3])
             IN /\ a[1] \in Kinds
                /\ a[2] \in Callbacks
                /\ SetBus(r.bus)
                /\ regctx' = RegSubscribed(a[1], a[2], a[3], r.ret)
       /\ UNCHANGED pending

\* One iteration of the loop: the callback in slot i is invoked with the
\* event, the payload pointer and the slot's user_data.
DeliverStep ==
    /\ pc = "deliver"
    /\ DeliverMore
    /\ LET s == subscribers[frame.event][frame.i]
       IN IF s.callback # "NULL"
          THEN /\ disp' = [disp EXCEPT !.invoked =
                              Append(@, [callback |-> s.callback,
                                         user_data |-> s.user_data,
                                         data |-> frame.data,
                                         ctx |-> WasReg(frame.event, s.callback)])]
               /\ CallbackBody
          ELSE UNCHANGED <<busvars, pending, reent, regctx, disp>>
    /\ frame' = [frame EXCEPT !.i = @ + 1]
    /\ UNCHANGED <<pc, last, owed>>

\* A callback that was registered for the event when its dispatch began, is
\* still registered when it ends, and was not invoked in between.
Missed ==
    \E c \in Range(disp.expect) :
        /\ c \in Range(Registered(Bus, disp.got.event))
        /\ \A n \in DOMAIN disp.invoked : disp.invoked[n].callback # c

\* The loop ends and deliver_event returns to its caller.
DeliverReturn ==
    /\ pc = "deliver"
    /\ ~DeliverMore
    /\ disp' = [disp EXCEPT !.done = TRUE, !.missed = @ \/ Missed]
    /\ pc' = IF frame.caller = "process" THEN "process" ELSE "idle"
    /\ last' = [last EXCEPT !.ret = IF frame.caller = "process" THEN "running"
                                    ELSE IF frame.caller = "publish" THEN "true"
                                    ELSE "void"]
    /\ frame' = NoFrame
    /\ UNCHANGED <<busvars, reent, regctx, pending, owed>>

\* The steps of the event bus; the mocks are not involved.
Next ==
    \/ InitCall /\ UNCHANGED notevent
    \/ DeinitCall /\ UNCHANGED notevent
    \/ \E a \in SubscribeArgs :
          Subscribe(a[1], a[2], a[3]) /\ UNCHANGED notevent
    \/ \E a \in UnsubscribeArgs :
          Unsubscribe(a[1], a[2]) /\ UNCHANGED notevent
    \/ \E event \in EventArgs :
          UnsubscribeAll(event) /\ UNCHANGED notevent
    \/ \E a \in PublishArgs :
          Publish(a[1], a[2]) /\ UNCHANGED notevent
    \/ \E a \in PublishArgs :
          PublishImmediate(a[1], a[2]) /\ UNCHANGED notevent
    \/ ProcessCall /\ UNCHANGED notevent
    \/ ProcessPop /\ UNCHANGED notevent
    \/ DeliverStep /\ UNCHANGED notevent
    \/ DeliverReturn /\ UNCHANGED notevent

Spec == Init /\ [][Next]_vars

\* ---------------------------------------------- a re-publishing subscriber
\* The bus with one subscriber of another sort: whenever Republisher is
\* invoked it publishes an event of the kind it was invoked for, every time
\* and without a bound; the other callbacks behave as in CallbackBody.
Republisher == "cbC"

Republish ==
    LET r == aic_event_publish(Bus, frame.event, "NULL")
    IN /\ ~r.deliver
       /\ SetBus(r.bus)
       /\ pending' = IF Accepted(Bus, r, frame.event)
                     THEN Append(pending, [event |-> frame.event, data |-> "NULL"])
                     ELSE pending
       /\ UNCHANGED <<reent, regctx>>

\* One iteration of deliver_event's loop with the re-publishing subscriber.
DeliverStepDrain ==
    /\ pc = "deliver"
    /\ DeliverMore
    /\ LET s == subscribers[frame.event][frame.i]
       IN IF s.callback # "NULL"
          THEN /\ disp' = [disp EXCEPT !.invoked =
                              Append(@, [callback |-> s.callback,
                                         user_data |-> s.user_data,
                                         data |-> frame.data,
                                         ctx |-> WasReg(frame.event, s.callback)])]
               /\ IF s.callback = Republisher THEN Republish ELSE CallbackBody
          ELSE UNCHANGED <<busvars, pending, reent, regctx, disp>>
    /\ frame' = [frame EXCEPT !.i = @ + 1]
    /\ UNCHANGED <<pc, last, owed>>

NextDrain ==
    \/ InitCall /\ UNCHANGED notevent
    \/ DeinitCall /\ UNCHANGED notevent
    \/ \E a \in SubscribeArgs :
          Subscribe(a[1], a[2], a[3]) /\ UNCHANGED notevent
    \/ \E a \in UnsubscribeArgs :
          Unsubscribe(a[1], a[2]) /\ UNCHANGED notevent
    \/ \E event \in EventArgs :
          UnsubscribeAll(event) /\ UNCHANGED notevent
    \/ \E a \in PublishArgs :
          Publish(a[1], a[2]) /\ UNCHANGED notevent
    \/ \E a \in PublishArgs :
          PublishImmediate(a[1], a[2]) /\ UNCHANGED notevent
    \/ ProcessCall /\ UNCHANGED notevent
    \/ ProcessPop /\ UNCHANGED notevent
    \/ DeliverStepDrain /\ UNCHANGED notevent
    \/ DeliverReturn /\ UNCHANGED notevent

\* The steps inside a call of process(), publish or publish_immediate: the
\* program is sequential, so a call that has begun goes on running.
Running ==
    /\ ProcessPop \/ DeliverStepDrain \/ DeliverReturn
    /\ UNCHANGED notevent

SpecDrain == Init /\ [][NextDrain]_vars /\ WF_vars(Running)

\* ------------------------------------------------- a producer's payload
\* The bus with a producer that owns one aic_event_data_t object, writes to
\* it between its calls and publishes from it.
\* What memcpy(&entry.data, data, sizeof) reads through data at the call.
Deref(ptr) == IF ptr = "NULL" THEN "NULL" ELSE app_data

\* A push is the one step that raises buffer_count; it writes the cell at
\* the old head, and stale records whether that cell held a payload.
TrackStale ==
    stale' = [c \in Cells |->
                 IF buffer_count' = buffer_count + 1 /\ c = buffer_head
                 THEN event_buffer[c].has_data
                 ELSE stale[c]]

\* The producer changes its own object between two calls.
ProducerWrite(value) ==
    /\ pc = "idle"
    /\ app_data # value
    /\ app_data' = value
    /\ UNCHANGED <<eventvars, stale>>

NextPayload ==
    \/ InitCall /\ TrackStale /\ UNCHANGED <<app_data, mockvars>>
    \/ DeinitCall /\ TrackStale /\ UNCHANGED <<app_data, mockvars>>
    \/ \E a \in SubscribeArgs :
          Subscribe(a[1], a[2], a[3]) /\ TrackStale /\ UNCHANGED <<app_data, mockvars>>
    \/ \E event \in Kinds, ptr \in PayloadPtrs :
          /\ event = 0 \/ ptr = "NULL"
          /\ Publish(event, Deref(ptr))
          /\ TrackStale
          /\ UNCHANGED <<app_data, mockvars>>
    \/ \E value \in PayloadValues : ProducerWrite(value) /\ UNCHANGED mockvars
    \/ ProcessCall /\ TrackStale /\ UNCHANGED <<app_data, mockvars>>
    \/ ProcessPop /\ TrackStale /\ UNCHANGED <<app_data, mockvars>>
    \/ DeliverStep /\ TrackStale /\ UNCHANGED <<app_data, mockvars>>
    \/ DeliverReturn /\ TrackStale /\ UNCHANGED <<app_data, mockvars>>

SpecPayload == Init /\ [][NextPayload]_vars

\* ============================================================ mock GPIO
\* The statics of the mock as one record.
Gpio ==
    [led_states |-> led_states,
     led_brightness |-> led_brightness,
     btn_states |-> btn_states,
     btn_was_pressed |-> btn_was_pressed,
     btn_callbacks |-> btn_callbacks]

SetGpio(g) ==
    /\ led_states' = g.led_states
    /\ led_brightness' = g.led_brightness
    /\ btn_states' = g.btn_states
    /\ btn_was_pressed' = g.btn_was_pressed
    /\ btn_callbacks' = g.btn_callbacks

\* bool aic_gpio_init(void) and void aic_gpio_deinit(void): both memset the
\* statics to zero.
aic_gpio_init(g) ==
    [led_states |-> [l \in Leds |-> FALSE],
     led_brightness |-> [l \in Leds |-> 0],
     btn_states |-> [b \in Buttons |-> FALSE],
     btn_was_pressed |-> [b \in Buttons |-> FALSE],
     btn_callbacks |-> [b \in Buttons |-> "NULL"]]

aic_gpio_deinit(g) ==
    [led_states |-> [l \in Leds |-> FALSE],
     led_brightness |-> [l \in Leds |-> 0],
     btn_states |-> [b \in Buttons |-> FALSE],
     btn_was_pressed |-> [b \in Buttons |-> FALSE],
     btn_callbacks |-> [b \in Buttons |-> "NULL"]]

\* void aic_gpio_led_set(aic_led_t led, bool state)
aic_gpio_led_set(g, led, state) ==
    IF led >= AIC_LED_COUNT
    THEN g
    ELSE [g EXCEPT !.led_states[led] = state,
                   !.led_brightness[led] = IF state THEN 100 ELSE 0]

\* void aic_gpio_led_toggle(aic_led_t led)
aic_gpio_led_toggle(g, led) ==
    IF led >= AIC_LED_COUNT
    THEN g
    ELSE [g EXCEPT !.led_states[led] = ~g.led_states[led],
                   !.led_brightness[led] = IF ~g.led_states[led] THEN 100 ELSE 0]

\* bool aic_gpio_led_get(aic_led_t led)
aic_gpio_led_get(g, led) ==
    IF led >= AIC_LED_COUNT THEN FALSE ELSE g.led_states[led]

\* void aic_gpio_led_all_on(void) / aic_gpio_led_all_off(void): led_set on
\* every LED in turn.
RECURSIVE LedSetAll(_, _, _)
LedSetAll(g, i, state) ==
    IF i >= AIC_LED_COUNT
    THEN g
    ELSE LedSetAll(aic_gpio_led_set(g, i, state), i + 1, state)

aic_gpio_led_all_on(g) == LedSetAll(g, 0, TRUE)

aic_gpio_led_all_off(g) == LedSetAll(g, 0, FALSE)

\* aic_gpio_pwm_set_brightness without the clamp to 100.
aic_gpio_pwm_set_brightness_noclamp(g, led, brightness) ==
    IF led >= AIC_LED_COUNT
    THEN g
    ELSE [g EXCEPT !.led_brightness[led] = brightness,
                   !.led_states[led] = (brightness > 0)]

\* void aic_gpio_pwm_set_brightness(aic_led_t led, uint8_t brightness)
aic_gpio_pwm_set_brightness(g, led, brightness) ==
    IF led >= AIC_LED_COUNT
    THEN g
    ELSE LET clamped == IF brightness > 100 THEN 100 ELSE brightness
         IN [g EXCEPT !.led_brightness[led] = clamped,
                      !.led_states[led] = (clamped > 0)]

\* uint8_t aic_gpio_pwm_get_brightness(aic_led_t led)
aic_gpio_pwm_get_brightness(g, led) ==
    IF led >= AIC_LED_COUNT THEN 0 ELSE g.led_brightness[led]

\* void aic_gpio_pwm_deinit(aic_led_t led): the LED's state is left as it is.
aic_gpio_pwm_deinit(g, led) ==
    IF led >= AIC_LED_COUNT
    THEN g
    ELSE [g EXCEPT !.led_brightness[led] = 0]

\* The calls into the mock; glast records the call and its arguments.
GpioCall(op, led, arg) == [op |-> op, led |-> led, arg |-> arg]

GpioInit ==
    /\ SetGpio(aic_gpio_init(Gpio))
    /\ glast' = GpioCall("init", 0, 0)
    /\ edge' = [b \in Buttons |-> FALSE]

GpioDeinit ==
    /\ SetGpio(aic_gpio_deinit(Gpio))
    /\ glast' = GpioCall("deinit", 0, 0)
    /\ edge' = [b \in Buttons |-> FALSE]

LedSet(led, state) ==
    /\ SetGpio(aic_gpio_led_set(Gpio, led, state))
    /\ glast' = GpioCall("led_set", led, IF state THEN 1 ELSE 0)
    /\ UNCHANGED edge

LedToggle(led) ==
    /\ SetGpio(aic_gpio_led_toggle(Gpio, led))
    /\ glast' = GpioCall("led_toggle", led, 0)
    /\ UNCHANGED edge

LedAllOn ==
    /\ SetGpio(aic_gpio_led_all_on(Gpio))
    /\ glast' = GpioCall("led_all_on", 0, 0)
    /\ UNCHANGED edge

LedAllOff ==
    /\ SetGpio(aic_gpio_led_all_off(Gpio))
    /\ glast' = GpioCall("led_all_off", 0, 0)
    /\ UNCHANGED edge

PwmSetBrightness(led, brightness) ==
    /\ SetGpio(aic_gpio_pwm_set_brightness(Gpio, led, brightness))
    /\ glast' = GpioCall("pwm_set_brightness", led, brightness)
    /\ UNCHANGED edge

PwmDeinit(led) ==
    /\ SetGpio(aic_gpio_pwm_deinit(Gpio, led))
    /\ glast' = GpioCall("pwm_deinit", led, 0)
    /\ UNCHANGED edge

NextGpio ==
    \/ GpioInit /\ UNCHANGED notgpio
    \/ GpioDeinit /\ UNCHANGED notgpio
    \/ \E led \in LedArgs, state \in BOOLEAN :
          LedSet(led, state) /\ UNCHANGED notgpio
    \/ \E led \in LedArgs :
          LedToggle(led) /\ UNCHANGED notgpio
    \/ LedAllOn /\ UNCHANGED notgpio
    \/ LedAllOff /\ UNCHANGED notgpio
    \/ \E led \in LedArgs, brightness \in BrightnessArgs :
          PwmSetBrightness(led, brightness) /\ UNCHANGED notgpio
    \/ \E led \in LedArgs :
          PwmDeinit(led) /\ UNCHANGED notgpio

SpecGpio == Init /\ [][NextGpio]_vars

\* ------------------------------------------------------ mock GPIO: buttons
\* bool aic_gpio_button_read_raw(aic_button_t btn); aic_gpio_button_read
\* returns the same.
aic_gpio_button_read_raw(g, btn) ==
    IF btn >= AIC_BTN_COUNT THEN FALSE ELSE g.btn_states[btn]

\* bool aic_gpio_button_set_callback(aic_button_t btn, aic_button_callback_t callback)
aic_gpio_button_set_callback(g, btn, callback) ==
    IF btn >= AIC_BTN_COUNT
    THEN [gpio |-> g, ret |-> FALSE]
    ELSE [gpio |-> [g EXCEPT !.btn_callbacks[btn] = callback], ret |-> TRUE]

\* void aic_gpio_button_clear_callback(aic_button_t btn)
aic_gpio_button_clear_callback(g, btn) ==
    IF btn >= AIC_BTN_COUNT
    THEN g
    ELSE [g EXCEPT !.btn_callbacks[btn] = "NULL"]

\* bool aic_gpio_button_was_pressed(aic_button_t btn): reads the latch and
\* clears it.
aic_gpio_button_was_pressed(g, btn) ==
    IF btn >= AIC_BTN_COUNT
    THEN [gpio |-> g, ret |-> FALSE]
    ELSE [gpio |-> [g EXCEPT !.btn_was_pressed[btn] = FALSE],
          ret |-> g.btn_was_pressed[btn]]

\* void aic_gpio_sim_set_button(aic_button_t btn, bool pressed); called says
\* that the function went on to call btn_callbacks[btn]().
aic_gpio_sim_set_button(g, btn, pressed) ==
    IF btn >= AIC_BTN_COUNT
    THEN [gpio |-> g, called |-> FALSE]
    ELSE [gpio |-> [g EXCEPT !.btn_states[btn] = pressed,
                             !.btn_was_pressed[btn] = IF pressed THEN TRUE ELSE @],
          called |-> (pressed /\ g.btn_callbacks[btn] # "NULL")]

ButtonSetCallback(btn, callback) ==
    /\ SetGpio(aic_gpio_button_set_callback(Gpio, btn, callback).gpio)
    /\ glast' = GpioCall("button_set_callback", btn, 0)
    /\ UNCHANGED edge

ButtonClearCallback(btn) ==
    /\ SetGpio(aic_gpio_button_clear_callback(Gpio, btn))
    /\ glast' = GpioCall("button_clear_callback", btn, 0)
    /\ UNCHANGED edge

\* The poll; edge forgets the transitions made before it.
ButtonWasPressed(btn) ==
    /\ LET r == aic_gpio_button_was_pressed(Gpio, btn)
       IN /\ SetGpio(r.gpio)
          /\ glast' = GpioCall("button_was_pressed", btn, IF r.ret THEN 1 ELSE 0)
    /\ edge' = IF btn \in Buttons THEN [edge EXCEPT ![btn] = FALSE] ELSE edge

\* The simulator sets the button's level.  A handler that is called is the
\* application's code: it returns at once or polls the button itself.
\* edge records a change of the level from released to pressed.
SimSetButton(btn, pressed) ==
    /\ \E poll \in BOOLEAN :
          LET r == aic_gpio_sim_set_button(Gpio, btn, pressed)
              after == IF poll
                       THEN aic_gpio_button_was_pressed(r.gpio, btn).gpio
                       ELSE r.gpio
          IN /\ poll => r.called
             /\ SetGpio(after)
             /\ edge' = IF btn \notin Buttons THEN edge
                        ELSE IF poll THEN [edge EXCEPT ![btn] = FALSE]
                        ELSE [edge EXCEPT ![btn] =
                                 @ \/ (pressed /\ ~aic_gpio_button_read_raw(Gpio, btn))]
    /\ glast' = GpioCall("sim_set_button", btn, IF pressed THEN 1 ELSE 0)

NextButtons ==
    \/ GpioInit /\ UNCHANGED notgpio
    \/ GpioDeinit /\ UNCHANGED notgpio
    \/ \E btn \in ButtonArgs, callback \in ButtonCallbacks :
          ButtonSetCallback(btn, callback) /\ UNCHANGED notgpio
    \/ \E btn \in ButtonArgs :
          ButtonClearCallback(btn) /\ UNCHANGED notgpio
    \/ \E btn \in ButtonArgs :
          ButtonWasPressed(btn) /\ UNCHANGED notgpio
    \/ \E btn \in ButtonArgs, pressed \in BOOLEAN :
          SimSetButton(btn, pressed) /\ UNCHANGED notgpio

SpecButtons == Init /\ [][NextButtons]_vars

\* ========================================================= sensors mock
\* The ADC statics of the mock as one record.
Adc == [adc_values |-> adc_values, adc_resolution |-> adc_resolution]

SetAdc(a) ==
    /\ adc_values' = a.adc_values
    /\ adc_resolution' = a.adc_resolution

\* static uint16_t adc_max_val(void): (uint16_t)((1 << adc_resolution) - 1)
adc_max_val(a) == (2 ^ a.adc_resolution - 1) % 65536

\* bool aic_sensors_init(void): the default ADC values, 12-bit resolution.
aic_sensors_init(a) ==
    [adc_values |-> [c \in Channels |->
                        CASE c = 0 -> 2048
                          [] c = 1 -> 1024
                          [] c = 2 -> 3072
                          [] c = 3 -> 512
                          [] OTHER -> 1500],
     adc_resolution |-> AIC_ADC_RES_12BIT]

\* bool aic_adc_init(aic_adc_resolution_t resolution)
aic_adc_init(a, resolution) == [a EXCEPT !.adc_resolution = resolution]

\* uint16_t aic_adc_read(aic_adc_channel_t channel)
aic_adc_read(a, channel) ==
    IF channel >= AIC_ADC_CH_COUNT
    THEN 0
    ELSE LET raw12 == a.adc_values[channel]
         IN IF a.adc_resolution = AIC_ADC_RES_12BIT
            THEN raw12
            ELSE ((raw12 * adc_max_val(a)) \div 4095) % 65536

\* uint8_t aic_adc_read_percent(aic_adc_channel_t channel)
aic_adc_read_percent(a, channel) ==
    LET raw == aic_adc_read(a, channel)
        max_v == adc_max_val(a)
    IN IF max_v = 0 THEN 0 ELSE ((raw * 100) \div max_v) % 256

\* void aic_sensors_sim_set_adc(aic_adc_channel_t channel, uint8_t percent)
aic_sensors_sim_set_adc(a, channel, percent) ==
    IF channel >= AIC_ADC_CH_COUNT
    THEN a
    ELSE LET clamped == IF percent > 100 THEN 100 ELSE percent
         IN [a EXCEPT !.adc_values[channel] = ((clamped * 4095) \div 100) % 65536]

\* The calls into the mock; slast records the call and its arguments.
SensorCall(op, channel, arg) == [op |-> op, channel |-> channel, arg |-> arg]

SensorsInit ==
    /\ SetAdc(aic_sensors_init(Adc))
    /\ slast' = SensorCall("sensors_init", 0, 0)

AdcInit(resolution) ==
    /\ SetAdc(aic_adc_init(Adc, resolution))
    /\ slast' = SensorCall("adc_init", 0, resolution)

SimSetAdc(channel, percent) ==
    /\ SetAdc(aic_sensors_sim_set_adc(Adc, channel, percent))
    /\ slast' = SensorCall("sim_set_adc", channel, percent)

NextSensors ==
    \/ SensorsInit /\ UNCHANGED notsensors
    \/ \E resolution \in Resolutions :
          AdcInit(resolution) /\ UNCHANGED notsensors
    \/ \E channel \in ChannelArgs, percent \in PercentArgs :
          SimSetAdc(channel, percent) /\ UNCHANGED notsensors

SpecSensors == Init /\ [][NextSensors]_vars

\* =============================================================== logger
\* aic_log.c, PC simulator build without LVGL: a ring buffer of formatted
\* messages that aic_log_process empties.  The texts of the model fit
\* AIC_LOG_MSG_MAX_LEN.  The statics as one record.
Log ==
    [log_initialized |-> log_initialized,
     current_level |-> current_level,
     log_buffer |-> log_buffer,
     buf_head |-> buf_head,
     buf_tail |-> buf_tail,
     buf_count |-> buf_count,
     dropped_count |-> dropped_count]

SetLog(l) ==
    /\ log_initialized' = l.log_initialized
    /\ current_level' = l.current_level
    /\ log_buffer' = l.log_buffer
    /\ buf_head' = l.buf_head
    /\ buf_tail' = l.buf_tail
    /\ buf_count' = l.buf_count
    /\ dropped_count' = l.dropped_count

\* static bool buf_push(const log_entry_t *entry)
buf_push(l, entry) ==
    IF l.buf_count >= AIC_LOG_QUEUE_SIZE
    THEN [log |-> l, ret |-> FALSE]
    ELSE [log |-> [l EXCEPT
                     !.log_buffer = [@ EXCEPT ![l.buf_head] = entry],
                     !.buf_head = (l.buf_head + 1) % AIC_LOG_QUEUE_SIZE,
                     !.buf_count = l.buf_count + 1],
          ret |-> TRUE]

\* static bool buf_pop(log_entry_t *entry)
buf_pop(l) ==
    IF l.buf_count = 0
    THEN [log |-> l, ret |-> FALSE, entry |-> ZeroLogEntry]
    ELSE [log |-> [l EXCEPT
                     !.buf_tail = (l.buf_tail + 1) % AIC_LOG_QUEUE_SIZE,
                     !.buf_count = l.buf_count - 1],
          ret |-> TRUE,
          entry |-> l.log_buffer[l.buf_tail]]

\* bool aic_log_init(void): the cells of the buffer are left as they are.
aic_log_init(l) ==
    IF l.log_initialized
    THEN l
    ELSE [l EXCEPT !.buf_head = 0,
                   !.buf_tail = 0,
                   !.buf_count = 0,
                   !.log_initialized = TRUE,
                   !.dropped_count = 0]

\* while (buf_pop(&entry)) { ... }: out collects the entries popped.
RECURSIVE LogDrain(_, _)
LogDrain(l, out) ==
    LET r == buf_pop(l)
    IN IF r.ret THEN LogDrain(r.log, Append(out, r.entry))
       ELSE [log |-> l, out |-> out]

\* void aic_log_process(void)
aic_log_process(l) ==
    IF ~l.log_initialized
    THEN [log |-> l, out |-> <<>>]
    ELSE LogDrain(l, <<>>)

\* void aic_log_flush(void)
aic_log_flush(l) ==
    IF ~l.log_initialized
    THEN [log |-> l, out |-> <<>>]
    ELSE aic_log_process(l)

\* aic_log_deinit that clears log_initialized before it drains.
aic_log_deinit_flagfirst(l) ==
    IF ~l.log_initialized
    THEN [log |-> l, out |-> <<>>]
    ELSE LET p == aic_log_process([l EXCEPT !.log_initialized = FALSE])
         IN [log |-> [p.log EXCEPT !.buf_head = 0,
                                   !.buf_tail = 0,
                                   !.buf_count = 0,
                                   !.log_initialized = FALSE],
             out |-> p.out]

\* void aic_log_deinit(void)
aic_log_deinit(l) ==
    IF ~l.log_initialized
    THEN [log |-> l, out |-> <<>>]
    ELSE LET p == aic_log_process(l)
         IN [log |-> [p.log EXCEPT !.buf_head = 0,
                                   !.buf_tail = 0,
                                   !.buf_count = 0,
                                   !.log_initialized = FALSE],
             out |-> p.out]

\* void aic_log_set_level(aic_log_level_t level)
aic_log_set_level(l, level) == [l EXCEPT !.current_level = level]

\* uint32_t aic_log_queue_count(void) / uint32_t aic_log_dropped_count(void)
aic_log_queue_count(l) == l.buf_count

aic_log_dropped_count(l) == l.dropped_count

\* aic_log_tag that does not count the messages it drops.
aic_log_tag_nocount(l, level, tag, text) ==
    IF level > l.current_level \/ level = AIC_LOG_NONE
    THEN [log |-> l, outcome |-> "filtered"]
    ELSE IF ~l.log_initialized
    THEN [log |-> l, outcome |-> "direct"]
    ELSE LET r == buf_push(l, [level |-> level, tag |-> tag, text |-> text])
         IN IF r.ret
            THEN [log |-> r.log, outcome |-> "queued"]
            ELSE [log |-> l, outcome |-> "dropped"]

\* void aic_log_tag(aic_log_level_t level, const char *tag, const char *fmt, ...):
\* the level filter, the direct output of an uninitialized logger, then the
\* entry "[tag] text" is pushed or counted as dropped.
aic_log_tag(l, level, tag, text) ==
    IF level > l.current_level \/ level = AIC_LOG_NONE
    THEN [log |-> l, outcome |-> "filtered"]
    ELSE IF ~l.log_initialized
    THEN [log |-> l, outcome |-> "direct"]
    ELSE LET r == buf_push(l, [level |-> level, tag |-> tag, text |-> text])
         IN IF r.ret
            THEN [log |-> r.log, outcome |-> "queued"]
            ELSE [log |-> [l EXCEPT !.dropped_count = @ + 1],
                  outcome |-> "dropped"]

\* void aic_log(aic_log_level_t level, const char *fmt, ...): the same steps
\* with an entry that has no tag.
aic_log(l, level, text) ==
    IF level > l.current_level \/ level = AIC_LOG_NONE
    THEN [log |-> l, outcome |-> "filtered"]
    ELSE IF ~l.log_initialized
    THEN [log |-> l, outcome |-> "direct"]
    ELSE LET r == buf_push(l, [level |-> level, tag |-> "none", text |-> text])
         IN IF r.ret
            THEN [log |-> r.log, outcome |-> "queued"]
            ELSE [log |-> [l EXCEPT !.dropped_count = @ + 1],
                  outcome |-> "dropped"]

\* The buffered entries, oldest first.
LogQueueSeq(l) ==
    [n \in 1 .. l.buf_count |->
        l.log_buffer[(l.buf_tail + n - 1) % AIC_LOG_QUEUE_SIZE]]

\* The calls into the logger; llast records the call and what became of it,
\* processed the entries the call took out of the buffer.
LogInit ==
    /\ SetLog(aic_log_init(Log))
    /\ llast' = LogCall("init", AIC_LOG_NONE, "n/a")
    /\ processed' = <<>>

LogDeinit ==
    /\ LET r == aic_log_deinit(Log)
       IN /\ SetLog(r.log)
          /\ processed' = r.out
    /\ llast' = LogCall("deinit", AIC_LOG_NONE, "n/a")

LogSetLevel(level) ==
    /\ SetLog(aic_log_set_level(Log, level))
    /\ llast' = LogCall("set_level", level, "n/a")
    /\ processed' = <<>>

LogMsg(level, text) ==
    /\ LET r == aic_log(Log, level, text)
       IN /\ r.outcome = "dropped" => dropped_count < MaxDropped
          /\ SetLog(r.log)
          /\ llast' = LogCall("log", level, r.outcome)
    /\ processed' = <<>>

LogTag(level, tag, text) ==
    /\ LET r == aic_log_tag(Log, level, tag, text)
       IN /\ r.outcome = "dropped" => dropped_count < MaxDropped
          /\ SetLog(r.log)
          /\ llast' = LogCall("log_tag", level, r.outcome)
    /\ processed' = <<>>

LogFlush ==
    /\ LET r == aic_log_flush(Log)
       IN /\ SetLog(r.log)
          /\ processed' = r.out
    /\ llast' = LogCall("flush", AIC_LOG_NONE, "n/a")

LogProcess ==
    /\ LET r == aic_log_process(Log)
       IN /\ SetLog(r.log)
          /\ processed' = r.out
    /\ llast' = LogCall("process", AIC_LOG_NONE, "n/a")

NextLog ==
    \/ LogInit /\ UNCHANGED notlog
    \/ LogDeinit /\ UNCHANGED notlog
    \/ \E level \in ThresholdArgs : LogSetLevel(level) /\ UNCHANGED notlog
    \/ \E level \in LevelArgs, text \in Texts :
          LogMsg(level, text) /\ UNCHANGED notlog
    \/ \E level \in LevelArgs, tag \in Tags, text \in Texts :
          LogTag(level, tag, text) /\ UNCHANGED notlog
    \/ LogFlush /\ UNCHANGED notlog
    \/ LogProcess /\ UNCHANGED notlog

SpecLog == Init /\ [][NextLog]_vars

\* =============================================================== claims
\* What the claims observe of a bus b.
\* The registrations of event, in slot order, as (callback, user_data) pairs.
Pairs(b, event) ==
    [n \in 1 .. b.subscriber_counts[event] |-> b.subscribers[event][n - 1]]

\* The position of callback among the registrations of event (0 if absent).
PosOf(b, event, callback) ==
    LET r == Registered(b, event)
        hits == {n \in DOMAIN r : r[n] = callback}
    IN IF hits = {} THEN 0 ELSE CHOOSE n \in hits : \A m \in hits : n <= m

\* publish(event, data) gets as far as buffer_push.
ReachesPush(event) ==
    /\ event \in Kinds
    /\ event_initialized
    /\ aic_event_subscriber_count(Bus, event) > 0

QueueFull == aic_event_queue_count(Bus) = AIC_EVENT_QUEUE_SIZE

\* ------------------------------------------------------------------- C1
\* C1: the queue count is always in [0, AIC_EVENT_QUEUE_SIZE]; in every
\* reachable state a publish that gets to the queue and finds it at capacity
\* returns false and leaves the count and the queued entries as they are,
\* and a pop on the empty queue returns false and changes nothing.
C1_CapacityInvariant ==
    /\ aic_event_queue_count(Bus) \in 0 .. AIC_EVENT_QUEUE_SIZE
    /\ \A a \in PublishArgs :
          LET r == aic_event_publish(Bus, a[1], a[2])
          IN /\ aic_event_queue_count(r.bus) \in 0 .. AIC_EVENT_QUEUE_SIZE
             /\ (ReachesPush(a[1]) /\ QueueFull) =>
                   /\ ~r.ret
                   /\ aic_event_queue_count(r.bus) = aic_event_queue_count(Bus)
                   /\ QueueSeq(r.bus) = QueueSeq(Bus)
                   /\ r.bus.event_buffer = event_buffer
    /\ aic_event_queue_count(Bus) = 0 =>
          LET p == buffer_pop(Bus)
          IN ~p.ret /\ p.bus = Bus

\* A publish has just failed on a full queue, whose entries are all still queued.
C1_Witness ==
    /\ pc = "idle"
    /\ last.op = "publish"
    /\ last.ret = "false"
    /\ last.event \in Kinds
    /\ QueueFull
    /\ Len(pending) = AIC_EVENT_QUEUE_SIZE

\* ------------------------------------------------------------------- C2
\* C2: the queue holds the accepted, undelivered events in the order they
\* were published, and every entry process() pops and dispatches is the
\* oldest of them, also after head and tail have wrapped.
C2_FifoDelivery ==
    /\ QueueSeq(Bus) = pending
    /\ disp.caller = "process" => disp.got = disp.expected

\* process() has popped the entry in the last cell while a different, later
\* entry sits in cell 0: the queued entries wrapped around the array's end.
C2_Witness ==
    /\ pc = "deliver"
    /\ frame.caller = "process"
    /\ frame.i = 0
    /\ reent = 0
    /\ buffer_tail = 0
    /\ buffer_count >= 1
    /\ disp.got = disp.expected
    /\ disp.got # QueueSeq(Bus)[1]

\* ------------------------------------------------------------------- C3
\* C3: when process() returns on an initialized bus the queue is empty, every
\* entry queued at its start has been popped, and no dispatch left out a
\* subscriber that was registered for the entry's kind at its delivery.
C3_DispatchCompleteness ==
    (pc = "idle" /\ last.op = "process" /\ event_initialized) =>
        /\ aic_event_queue_count(Bus) = 0
        /\ owed = <<>>
        /\ ~disp.missed

C5_NoSubscriberPublish ==
    /\ \A a \in PublishArgs :
          (a[1] \in Kinds /\ aic_event_subscriber_count(Bus, a[1]) = 0) =>
              LET r == aic_event_publish(Bus, a[1], a[2])
              IN r.ret /\ ~r.deliver /\ r.bus = Bus
    /\ (pc = "idle" /\ last.op = "publish") => disp.invoked = <<>>

\* A publish to a kind without subscribers has just succeeded on a full queue.
C5_Witness ==
    /\ pc = "idle"
    /\ last.op = "publish"
    /\ last.ret = "true"
    /\ last.event \in Kinds
    /\ aic_event_subscriber_count(Bus, last.event) = 0
    /\ QueueFull
    /\ QueueSeq(Bus) = pending

\* ------------------------------------------------------------------- C6
\* C6: every kind holds at most AIC_EVENT_MAX_SUBSCRIBERS registrations, no
\* callback twice, and subscriber_count(kind) is the number of distinct
\* callbacks whose subscription is in force.
C6_RegistryUnique ==
    \A k \in Kinds :
        LET reg == Registered(Bus, k)
            inforce == {c \in Callbacks : regctx[k][c] # "none"}
        IN /\ aic_event_subscriber_count(Bus, k) <= AIC_EVENT_MAX_SUBSCRIBERS
           /\ \A m, n \in DOMAIN reg : m # n => reg[m] # reg[n]
           /\ Range(reg) = inforce
           /\ aic_event_subscriber_count(Bus, k) = Cardinality(inforce)

\* A callback has just been subscribed again to a kind whose list is full.
C6_Witness ==
    /\ pc = "idle"
    /\ last.op = "subscribe"
    /\ last.ret = "true"
    /\ last.was \in UserData
    /\ aic_event_subscriber_count(Bus, last.event) = AIC_EVENT_MAX_SUBSCRIBERS

\* ------------------------------------------------------------------- C7
\* C7: subscribing a registered callback again succeeds, keeps the count and
\* the order of the kind's registrations and stores the new context; every
\* dispatch hands a callback the context it was last subscribed with.
C7_SubscribeIdempotent ==
    /\ \A k \in Kinds, c \in Callbacks, u \in UserData :
          (event_initialized /\ c \in Range(Registered(Bus, k))) =>
              LET r == aic_event_subscribe(Bus, k, c, u)
              IN /\ r.ret
                 /\ aic_event_subscriber_count(r.bus, k)
                        = aic_event_subscriber_count(Bus, k)
                 /\ Registered(r.bus, k) = Registered(Bus, k)
                 /\ Pairs(r.bus, k)[PosOf(Bus, k, c)].user_data = u
    /\ \A n \in DOMAIN disp.invoked :
          disp.invoked[n].user_data = disp.invoked[n].ctx

\* cbA, second in kind 0's list with ctx1, has just been subscribed again
\* with ctx2.
C7_Witness ==
    /\ pc = "idle"
    /\ last.op = "subscribe"
    /\ last.ret = "true"
    /\ last.event = 0
    /\ last.callback = "cbA"
    /\ last.was = "ctx1"
    /\ aic_event_subscriber_count(Bus, 0) = 2
    /\ Pairs(Bus, 0)[2] = [callback |-> "cbA", user_data |-> "ctx2"]

\* ------------------------------------------------------------------- C8
\* C8 as stated: on an initialized bus, subscribe with a valid kind and
\* callback fails and changes nothing whenever the kind's list is full.
C8_FailsWheneverFull ==
    \A k \in Kinds, c \in Callbacks, u \in UserData :
        (/\ event_initialized
         /\ aic_event_subscriber_count(Bus, k) >= AIC_EVENT_MAX_SUBSCRIBERS) =>
            LET r == aic_event_subscribe(Bus, k, c, u)
            IN ~r.ret /\ r.bus = Bus

\* C8 amended: on an initialized bus, subscribe with a valid kind and callback
\* fails and changes nothing when the kind's list is full and the callback
\* is not in it; in every other case it returns true, having appended the
\* registration or, for a callback already in the list (a full list
\* included), replaced its context in place.
C8_SubscribeCapacity ==
    \A k \in Kinds, c \in Callbacks, u \in UserData :
        event_initialized =>
            LET r == aic_event_subscribe(Bus, k, c, u)
                old == Pairs(Bus, k)
                p == PosOf(Bus, k, c)
                new == [callback |-> c, user_data |-> u]
            IN IF p = 0 /\ Len(old) >= AIC_EVENT_MAX_SUBSCRIBERS
               THEN ~r.ret /\ r.bus = Bus
               ELSE /\ r.ret
                    /\ Pairs(r.bus, k) = IF p = 0 THEN Append(old, new)
                                         ELSE [old EXCEPT ![p] = new]

\* A subscribe of a callback not yet registered has just failed on a full list.
C8_Witness ==
    /\ pc = "idle"
    /\ last.op = "subscribe"
    /\ last.ret = "false"
    /\ last.was = "none"
    /\ event_initialized
    /\ last.event \in Kinds
    /\ aic_event_subscriber_count(Bus, last.event) = AIC_EVENT_MAX_SUBSCRIBERS

C10_DispatchOrder ==
    (disp.done /\ disp.caller = "process") =>
        LET inv == [n \in DOMAIN disp.invoked |-> disp.invoked[n].callback]
        IN /\ ~Missed
           /\ \A m, n \in DOMAIN inv : m # n => inv[m] # inv[n]
           /\ \A m, n \in DOMAIN disp.expect :
                 m < n =>
                    \A x, y \in DOMAIN inv :
                       (inv[x] = disp.expect[m] /\ inv[y] = disp.expect[n]) => x < y

\* seq1 is an initial part of seq2.
IsPrefix(seq1, seq2) ==
    /\ Len(seq1) <= Len(seq2)
    /\ \A n \in DOMAIN seq1 : seq1[n] = seq2[n]

\* The callbacks a dispatch invoked, in the order of their invocation.
InvokedCallbacks == [n \in DOMAIN disp.invoked |-> disp.invoked[n].callback]

\* ------------------------------------------------------------------ C11
\* C11: when publish_immediate(kind, payload) returns, every subscriber of
\* the kind has been invoked once, in registration order, and the call has
\* neither popped nor delivered a queued entry: the entries queued before
\* it are still queued, in place, and with callbacks that call nothing the
\* queue is exactly as before.
C11_ImmediateDispatch ==
    (pc = "idle" /\ last.op = "publish_immediate" /\ disp.done) =>
        /\ disp.caller = "immediate"
        /\ ~Missed
        /\ \A m, n \in DOMAIN InvokedCallbacks :
              m # n => InvokedCallbacks[m] # InvokedCallbacks[n]
        /\ \A m, n \in DOMAIN disp.expect :
              m < n =>
                 \A x, y \in DOMAIN InvokedCallbacks :
                    (/\ InvokedCallbacks[x] = disp.expect[m]
                     /\ InvokedCallbacks[y] = disp.expect[n]) => x < y
        /\ \A n \in DOMAIN disp.invoked : disp.invoked[n].data = disp.got.data
        /\ IsPrefix(disp.q0, QueueSeq(Bus))
        /\ reent = 0 => QueueSeq(Bus) = disp.q0

\* ------------------------------------------------------------------ C12
\* The aic_event_t arguments that are out of range.
BadKinds == {e \in EventArgs : e >= AIC_EVENT_MAX}

\* C12: in every reachable state a call with a kind >= AIC_EVENT_MAX changes
\* nothing and reports failure: subscribe, unsubscribe and publish return
\* false, subscriber_count returns 0, unsubscribe_all and publish_immediate
\* return with the bus as it was, and no dispatch ever runs for such a kind.
C12_OutOfRangeKind ==
    /\ \A e \in BadKinds, c \in CallbackArgs, u \in UserData, d \in DataArgs :
          LET s == aic_event_subscribe(Bus, e, c, u)
              n == aic_event_unsubscribe(Bus, e, c)
              p == aic_event_publish(Bus, e, d)
              i == aic_event_publish_immediate(Bus, e, d)
          IN /\ ~s.ret /\ s.bus = Bus
             /\ ~n.ret /\ n.bus = Bus
             /\ ~p.ret /\ ~p.deliver /\ p.bus = Bus
             /\ ~i.deliver /\ i.bus = Bus
             /\ aic_event_subscriber_count(Bus, e) = 0
             /\ aic_event_unsubscribe_all(Bus, e) = Bus
    /\ pc = "deliver" => frame.event \in Kinds
    /\ (pc = "idle" /\ last.event \in BadKinds) =>
          /\ last.ret \in {"false", "void"}
          /\ disp = NoDisp

\* A publish with a kind out of range has just failed on an initialized bus
\* that has subscribers and queued entries.
C12_Witness ==
    /\ pc = "idle"
    /\ last.op = "publish"
    /\ last.event \in BadKinds
    /\ last.ret = "false"
    /\ event_initialized
    /\ aic_event_queue_count(Bus) > 0
    /\ aic_event_subscriber_count(Bus, 0) > 0

\* ------------------------------------------------------------------ C13
\* While the bus is uninitialized subscribe and unsubscribe return false and
\* they and unsubscribe_all leave the bus as it is.
C13_State ==
    ~event_initialized =>
        /\ \A a \in SubscribeArgs :
              LET r == aic_event_subscribe(Bus, a[1], a[2], a[3])
              IN ~r.ret /\ r.bus = Bus
        /\ \A a \in UnsubscribeArgs :
              LET r == aic_event_unsubscribe(Bus, a[1], a[2])
              IN ~r.ret /\ r.bus = Bus
        /\ \A e \in EventArgs : aic_event_unsubscribe_all(Bus, e) = Bus

\* A call of subscribe, unsubscribe, unsubscribe_all or process on the
\* uninitialized bus returns at once, with the statics unchanged and no
\* dispatch started.
C13_Step ==
    (/\ pc = "idle"
     /\ ~event_initialized
     /\ last'.op \in {"subscribe", "unsubscribe", "unsubscribe_all", "process"}) =>
        /\ busvars' = busvars
        /\ pc' = "idle"
        /\ disp' = NoDisp
        /\ last'.ret \in {"false", "void"}

\* C13: while the bus is uninitialized (before init or after deinit),
\* subscribe and unsubscribe return false, and subscribe, unsubscribe,
\* unsubscribe_all and process leave the registry and the queue unchanged and
\* invoke no callback.
C13_Uninitialized == []C13_State /\ [][C13_Step]_vars

\* A subscribe with a valid kind and callback has just failed on a bus that
\* was deinitialized after an event with a payload had been queued.
C13_Witness ==
    /\ pc = "idle"
    /\ ~event_initialized
    /\ last.op = "subscribe"
    /\ last.ret = "false"
    /\ last.event \in Kinds
    /\ last.callback \in Callbacks
    /\ \E c \in Cells : event_buffer[c].has_data

FreshBus ==
    [event_initialized |-> TRUE,
     subscribers |-> [k \in Kinds |-> [s \in Slots |-> NullSub]],
     subscriber_counts |-> [k \in Kinds |-> 0],
     event_buffer |-> [c \in Cells |-> ZeroEntry],
     buffer_head |-> 0,
     buffer_tail |-> 0,
     buffer_count |-> 0]

\* C15: deinit on an initialized bus leaves it uninitialized with every
\* kind's subscriber count 0 and the queue count 0, the entries still queued
\* are discarded with no callback invoked, and an init after it gives an
\* empty registry and an empty queue.
C15_Deinit ==
    /\ event_initialized =>
          LET d == aic_event_deinit(Bus)
              i == aic_event_init(d)
          IN /\ ~d.event_initialized
             /\ \A k \in Kinds : aic_event_subscriber_count(d, k) = 0
             /\ \A k \in Kinds : Pairs(d, k) = <<>>
             /\ aic_event_queue_count(d) = 0
             /\ QueueSeq(d) = <<>>
             /\ i.ret
             /\ i.bus = FreshBus
    /\ (pc = "idle" /\ last.op = "deinit") =>
          /\ ~event_initialized
          /\ \A k \in Kinds : aic_event_subscriber_count(Bus, k) = 0
          /\ aic_event_queue_count(Bus) = 0
          /\ disp = NoDisp
    /\ disp.caller = "process" => disp.got = disp.expected

\* deinit has just discarded a queue that still held entries.
C15_Witness ==
    /\ pc = "idle"
    /\ last.op = "deinit"
    /\ last.was = "queued"
    /\ ~event_initialized
    /\ aic_event_queue_count(Bus) = 0

\* ------------------------------------------------------------------ C16
\* On an initialized bus publish never goes into deliver_event, a dispatch
\* is always one started by process() or publish_immediate, and an event
\* publish has just accepted is the newest entry of the queue, undelivered.
C16_State ==
    /\ event_initialized =>
          \A a \in PublishArgs : ~aic_event_publish(Bus, a[1], a[2]).deliver
    /\ pc = "deliver" => frame.caller \in {"process", "immediate"}
    /\ (/\ pc = "idle"
        /\ event_initialized
        /\ last.op = "publish"
        /\ last.ret = "true"
        /\ last.event \in Kinds
        /\ aic_event_subscriber_count(Bus, last.event) > 0) =>
          /\ QueueSeq(Bus) # <<>>
          /\ QueueSeq(Bus)[Len(QueueSeq(Bus))].event = last.event
          /\ disp = NoDisp

\* A callback is invoked only inside process() or publish_immediate, and an
\* entry leaves the queue only when process() pops it or deinit discards it.
C16_Step ==
    /\ Len(disp'.invoked) > Len(disp.invoked) =>
          frame.caller \in {"process", "immediate"}
    /\ buffer_count' < buffer_count =>
          (pc = "process" \/ last'.op = "deinit")

\* C16: on an initialized bus publish() never invokes a subscriber callback
\* itself; callbacks run only inside process() (or publish_immediate), and
\* between a successful publish and the next process() the event stays in the
\* queue undelivered.
C16_Decoupling == []C16_State /\ [][C16_Step]_vars

\* Two accepted events wait in the queue after a publish and a further,
\* different top-level call, none of them delivered.
C16_Witness ==
    /\ pc = "idle"
    /\ event_initialized
    /\ last.op \in {"subscribe", "unsubscribe"}
    /\ Len(pending) = 2
    /\ QueueSeq(Bus) = pending
    /\ disp = NoDisp

\* ------------------------------------------------------------------ C17
\* C17 as stated: an entry published by a callback while process() is
\* dispatching is not dispatched during that process() call: every entry a
\* process() call dispatches was in the queue when the call began.
C17_ReentrantDeferred ==
    disp.caller = "process" => ~disp.late

\* C17 amended: an entry published by a callback while process() is
\* dispatching is appended at the tail, behind the entries queued when the
\* call began, and is dispatched by that same process() call, in publish
\* order: when process() returns the queue is empty and no accepted event
\* is left for a later call.
C17_ReentrantSameCall ==
    /\ (pc \in {"process", "deliver"} /\ last.op = "process") =>
          /\ IsPrefix(owed, pending)
          /\ QueueSeq(Bus) = pending
    /\ (disp.caller = "process" /\ disp.late) => disp.got = disp.expected
    /\ (pc = "idle" /\ last.op = "process" /\ event_initialized) =>
          /\ aic_event_queue_count(Bus) = 0
          /\ pending = <<>>

\* process() is dispatching an entry that a callback published during this
\* same call.
C17_Witness ==
    /\ pc = "deliver"
    /\ frame.caller = "process"
    /\ last.op = "process"
    /\ disp.late
    /\ disp.got = disp.expected
    /\ reent > 0

\* ------------------------------------------------------------------ C18
\* C18: every subscriber that was registered for the kind when the dispatch
\* of a popped event began has been invoked for it when the dispatch ends,
\* whatever the callbacks unsubscribed meanwhile.
C18_UnsubscribeDuringDispatch ==
    (disp.done /\ disp.caller = "process") =>
        \A c \in Range(disp.expect) : c \in Range(InvokedCallbacks)

\* ------------------------------------------------------------------ C19
\* C19: in every state of the mock GPIO aic_gpio_pwm_get_brightness returns
\* a value in 0..100 for every LED and 0 for an LED out of range, and from
\* every state pwm_set_brightness with any uint8 argument leaves the LED at
\* the argument clamped to 100 and the other LEDs as they were.
C19_BrightnessRange ==
    /\ \A led \in Leds : aic_gpio_pwm_get_brightness(Gpio, led) \in 0 .. 100
    /\ \A led \in LedArgs \ Leds : aic_gpio_pwm_get_brightness(Gpio, led) = 0
    /\ \A led \in LedArgs, brightness \in Uint8 :
          LET g == aic_gpio_pwm_set_brightness(Gpio, led, brightness)
          IN /\ \A l \in Leds :
                   aic_gpio_pwm_get_brightness(g, l) =
                       IF l # led THEN aic_gpio_pwm_get_brightness(Gpio, l)
                       ELSE IF brightness > 100 THEN 100 ELSE brightness
             /\ led \notin Leds => g = Gpio

\* pwm_set_brightness has just been called with 255 on the last LED, which
\* now reads 100, while another LED was dimmed and a third had its PWM
\* deinitialized while on.
C19_Witness ==
    /\ glast = GpioCall("pwm_set_brightness", AIC_LED_COUNT - 1, 255)
    /\ aic_gpio_pwm_get_brightness(Gpio, AIC_LED_COUNT - 1) = 100
    /\ aic_gpio_pwm_get_brightness(Gpio, 0) = 50
    /\ aic_gpio_pwm_get_brightness(Gpio, 1) = 0
    /\ aic_gpio_led_get(Gpio, 1)

\* ------------------------------------------------------------------ C20
\* C20: after aic_sensors_sim_set_adc(channel, p) on a valid channel,
\* aic_adc_read_percent(channel) at 12-bit resolution returns p, or 100 for
\* p above 100; a channel out of range leaves every stored value, as
\* aic_adc_read_percent reports it, unchanged.
C20_AdcRoundTrip ==
    /\ (/\ slast.op = "sim_set_adc"
        /\ slast.channel \in Channels
        /\ adc_resolution = AIC_ADC_RES_12BIT) =>
          aic_adc_read_percent(Adc, slast.channel) =
              IF slast.arg > 100 THEN 100 ELSE slast.arg
    /\ \A channel \in ChannelArgs \ Channels, percent \in Uint8 :
          aic_sensors_sim_set_adc(Adc, channel, percent) = Adc

\* ------------------------------------------------------------------ C21
\* While process() runs the queue holds the accepted events in publish
\* order, those published by callbacks behind the others, and when process()
\* returns on an initialized bus nothing is left in the queue.
C21_State ==
    /\ (pc \in {"process", "deliver"} /\ last.op = "process") =>
          /\ QueueSeq(Bus) = pending
          /\ disp.caller = "process" => disp.got = disp.expected
    /\ (pc = "idle" /\ last.op = "process" /\ event_initialized) =>
          /\ aic_event_queue_count(Bus) = 0
          /\ QueueSeq(Bus) = <<>>
          /\ pending = <<>>

\* The callbacks other than Republisher make no further nested call: none
\* is registered, or the nested calls of this top-level call are used up.
OthersPassive ==
    \/ reent = MaxReentrant
    \/ \A k \in Kinds : Range(Registered(Bus, k)) \subseteq {Republisher}

\* Republisher is registered for kind and process() either holds a queued
\* entry of that kind or is dispatching one, has not yet passed
\* Republisher's slot and has room in the queue for what it will publish.
Starving(kind) ==
    /\ pc \in {"process", "deliver"}
    /\ last.op = "process"
    /\ event_initialized
    /\ OthersPassive
    /\ Republisher \in Range(Registered(Bus, kind))
    /\ \/ \E n \in DOMAIN QueueSeq(Bus) : QueueSeq(Bus)[n].event = kind
       \/ /\ pc = "deliver"
          /\ frame.caller = "process"
          /\ frame.event = kind
          /\ frame.i < PosOf(Bus, kind, Republisher)
          /\ aic_event_queue_count(Bus) < AIC_EVENT_QUEUE_SIZE

\* A process() call that is starving stays so at every step: it never
\* returns.
C21_StarveStep ==
    \A k \in Kinds : Starving(k) => (Starving(k)' /\ pc' # "idle")

\* A process() call returns, unless it invokes Republisher.
C21_Terminates ==
    (pc = "process") ~> (pc = "idle" \/ Republisher \in Range(InvokedCallbacks))

\* C21: process() pops until the queue is empty, so the entries callbacks
\* publish during a process() call are dispatched within that call; a call
\* whose callbacks publish finitely many events returns, and a call that
\* dispatches to a subscriber re-publishing its own kind on every
\* invocation never returns.
C21_DrainLoop == []C21_State /\ [][C21_StarveStep]_vars /\ C21_Terminates

\* process() is dispatching an entry that Republisher published during this
\* same call, and is about to invoke Republisher for it again.
C21_Witness ==
    /\ Starving(0)
    /\ pc = "deliver"
    /\ disp.late
    /\ disp.got = [event |-> 0, data |-> "NULL"]
    /\ disp.got = disp.expected
    /\ aic_event_queue_count(Bus) = 0

\* ------------------------------------------------------------------ C22
\* C22: the queue holds, and process() hands to every subscriber, the
\* payload value that was passed to publish when it was called, whatever
\* the producer wrote to its object afterwards and whatever was published
\* into other cells later; an event published with NULL is queued with
\* zeroed data and delivered with NULL, also from a cell that held a payload.
C22_PayloadByValue ==
    /\ QueueSeq(Bus) = pending
    /\ \A c \in Cells : ~event_buffer[c].has_data => event_buffer[c].data = "zero"
    /\ disp.caller = "process" =>
          /\ disp.got.data = disp.expected.data
          /\ \A n \in DOMAIN disp.invoked :
                disp.invoked[n].data = disp.expected.data

\* process() is delivering NULL for an entry whose cell held a payload
\* before it, and the next entry in the queue carries a value that the
\* producer's object no longer has.
C22_Witness ==
    /\ pc = "deliver"
    /\ frame.caller = "process"
    /\ frame.i > 0
    /\ disp.invoked # <<>>
    /\ disp.invoked[1].data = "NULL"
    /\ stale[(buffer_tail + AIC_EVENT_QUEUE_SIZE - 1) % AIC_EVENT_QUEUE_SIZE]
    /\ aic_event_queue_count(Bus) > 0
    /\ QueueSeq(Bus)[1].data \in PayloadValues
    /\ QueueSeq(Bus)[1].data # app_data

\* ------------------------------------------------------------------ C23
\* C23: on an initialized bus unsubscribe_all(kind) leaves the kind with no
\* subscriber and every other kind's list, the queue's count and its
\* entries as they were; the kind's queued entries stay queued, process()
\* pops them in their turn and invokes for them only callbacks whose
\* subscription was made after the clear: none, if there is none.
C23_UnsubscribeAll ==
    /\ event_initialized =>
          \A k \in Kinds :
              LET b == aic_event_unsubscribe_all(Bus, k)
              IN /\ aic_event_subscriber_count(b, k) = 0
                 /\ Pairs(b, k) = <<>>
                 /\ \A j \in Kinds \ {k} :
                       /\ b.subscribers[j] = subscribers[j]
                       /\ b.subscriber_counts[j] = subscriber_counts[j]
                 /\ aic_event_queue_count(b) = aic_event_queue_count(Bus)
                 /\ QueueSeq(b) = QueueSeq(Bus)
                 /\ b.event_buffer = event_buffer
                 /\ b.event_initialized
    /\ (pc = "idle" /\ last.op = "unsubscribe_all" /\ last.event \in Kinds
           /\ event_initialized) =>
          /\ aic_event_subscriber_count(Bus, last.event) = 0
          /\ \A c \in Callbacks : regctx[last.event][c] = "none"
    /\ QueueSeq(Bus) = pending
    /\ disp.caller = "process" =>
          /\ disp.got = disp.expected
          /\ \A n \in DOMAIN disp.invoked : disp.invoked[n].ctx # "none"
          /\ (disp.done /\ disp.expect = <<>>) => disp.invoked = <<>>

\* unsubscribe_all(0) has just cleared kind 0 while the queue is full of
\* entries of kind 0, one with a payload, and another kind keeps its
\* subscriber.
C23_Witness ==
    /\ pc = "idle"
    /\ last.op = "unsubscribe_all"
    /\ last.event = 0
    /\ event_initialized
    /\ aic_event_subscriber_count(Bus, 0) = 0
    /\ aic_event_subscriber_count(Bus, 1) = 1
    /\ QueueFull
    /\ \A n \in DOMAIN QueueSeq(Bus) : QueueSeq(Bus)[n].event = 0
    /\ \E n \in DOMAIN QueueSeq(Bus) : QueueSeq(Bus)[n].data # "NULL"

\* ------------------------------------------------------------------ C24
\* On an initialized bus init returns true and is the identity on the
\* statics; the registry and the queue are what the calls since the first
\* init made them.
C24_State ==
    /\ event_initialized => aic_event_init(Bus) = [bus |-> Bus, ret |-> TRUE]
    /\ QueueSeq(Bus) = pending
    /\ \A k \in Kinds :
          Range(Registered(Bus, k)) = {c \in Callbacks : regctx[k][c] # "none"}
    /\ (pc = "idle" /\ last.op = "init") => (event_initialized /\ last.ret = "true")

\* A call of init on an initialized bus changes none of the statics.
C24_Step ==
    (pc = "idle" /\ event_initialized /\ last'.op = "init") =>
        /\ busvars' = busvars
        /\ last'.ret = "true"
        /\ pc' = "idle"

\* C24: init on an initialized bus returns true and leaves every
\* subscription and every queued entry intact, so the registry and the
\* queue persist from the first init to deinit, across subscribe, publish,
\* process and further init calls.
C24_InitIdempotent == []C24_State /\ [][C24_Step]_vars

\* init has just returned true on a bus that holds two subscriptions of kind
\* 0 and a full queue.
C24_Witness ==
    /\ pc = "idle"
    /\ last.op = "init"
    /\ last.ret = "true"
    /\ event_initialized
    /\ aic_event_subscriber_count(Bus, 0) = 2
    /\ QueueFull
    /\ QueueSeq(Bus) = pending

\* ------------------------------------------------------------------ C25
\* C25: whenever the bus is uninitialized every kind has no subscriber and
\* the queue is empty; publish then returns by the no-subscriber shortcut
\* without going into deliver_event, the loop of deliver_event entered by
\* publish_immediate has nothing to iterate over, and no callback has been
\* invoked.
C25_UninitializedEmpty ==
    ~event_initialized =>
        /\ \A k \in Kinds :
              /\ aic_event_subscriber_count(Bus, k) = 0
              /\ Pairs(Bus, k) = <<>>
              /\ \A s \in Slots : subscribers[k][s] = NullSub
        /\ aic_event_queue_count(Bus) = 0
        /\ QueueSeq(Bus) = <<>>
        /\ \A a \in PublishArgs : ~aic_event_publish(Bus, a[1], a[2]).deliver
        /\ pc \in {"idle", "deliver"}
        /\ pc = "deliver" => (frame.caller = "immediate" /\ ~DeliverMore)
        /\ disp.invoked = <<>>

\* publish_immediate has just returned on a bus that was deinitialized
\* after an event with a payload had been queued: its dispatch is done and
\* invoked nobody.
C25_Witness ==
    /\ pc = "idle"
    /\ ~event_initialized
    /\ last.op = "publish_immediate"
    /\ last.event \in Kinds
    /\ disp.done
    /\ disp.invoked = <<>>
    /\ \E c \in Cells : event_buffer[c].has_data

\* ------------------------------------------------------------------ C26
\* C26: in every state of the mock aic_gpio_button_was_pressed(btn) returns
\* true exactly when the button went from released to pressed through
\* aic_gpio_sim_set_button(btn, true) since the previous poll; the poll
\* clears the latch, so a poll right after it returns false; and setting
\* the button to released leaves the latch as it is.
C26_ButtonLatch ==
    \A btn \in Buttons :
        LET first == aic_gpio_button_was_pressed(Gpio, btn)
            second == aic_gpio_button_was_pressed(first.gpio, btn)
            released == aic_gpio_sim_set_button(Gpio, btn, FALSE)
        IN /\ first.ret = edge[btn]
           /\ ~second.ret
           /\ released.gpio.btn_was_pressed = btn_was_pressed

\* ------------------------------------------------------------------ C27
\* C27: in every state of the mock GPIO, for every LED,
\* aic_gpio_led_get(led) is true exactly when
\* aic_gpio_pwm_get_brightness(led) is greater than 0.
C27_LedConsistency ==
    \A led \in Leds :
        aic_gpio_led_get(Gpio, led) <=> aic_gpio_pwm_get_brightness(Gpio, led) > 0

\* ------------------------------------------------------------------ C28
\* What aic_log and aic_log_tag make of state l for a message of level
\* level, given the result r of the call and the entry it built.
LogAccounting(l, r, entry) ==
    IF entry.level <= l.current_level /\ entry.level # AIC_LOG_NONE
          /\ l.log_initialized
    THEN IF aic_log_queue_count(l) < AIC_LOG_QUEUE_SIZE
         THEN /\ aic_log_queue_count(r.log) = aic_log_queue_count(l) + 1
              /\ aic_log_dropped_count(r.log) = aic_log_dropped_count(l)
              /\ LogQueueSeq(r.log) = Append(LogQueueSeq(l), entry)
         ELSE /\ aic_log_dropped_count(r.log) = aic_log_dropped_count(l) + 1
              /\ aic_log_queue_count(r.log) = aic_log_queue_count(l)
              /\ r.log.log_buffer = l.log_buffer
              /\ r.log.buf_head = l.buf_head
              /\ r.log.buf_tail = l.buf_tail
    ELSE r.log = l

\* C28: the number of buffered messages never exceeds AIC_LOG_QUEUE_SIZE;
\* in every reachable state a message that passes the level filter on an
\* initialized logger is appended (count + 1) or, on a full buffer, counted
\* as dropped (+ 1) with the buffer unchanged, and a message that is
\* filtered out, or logged while uninitialized, changes nothing.
C28_LogAccounting ==
    /\ aic_log_queue_count(Log) \in 0 .. AIC_LOG_QUEUE_SIZE
    /\ \A level \in Levels, text \in Texts :
          LogAccounting(Log, aic_log(Log, level, text),
                        [level |-> level, tag |-> "none", text |-> text])
    /\ \A level \in Levels, tag \in Tags, text \in Texts :
          LogAccounting(Log, aic_log_tag(Log, level, tag, text),
                        [level |-> level, tag |-> tag, text |-> text])
    /\ llast.outcome = "queued" => aic_log_queue_count(Log) > 0
    /\ llast.outcome = "dropped" =>
          /\ aic_log_queue_count(Log) = AIC_LOG_QUEUE_SIZE
          /\ aic_log_dropped_count(Log) > 0
    /\ ~log_initialized => aic_log_queue_count(Log) = 0

\* aic_log_tag has just dropped a second message on a full buffer.
C28_Witness ==
    /\ llast.op = "log_tag"
    /\ llast.outcome = "dropped"
    /\ log_initialized
    /\ aic_log_queue_count(Log) = AIC_LOG_QUEUE_SIZE
    /\ aic_log_dropped_count(Log) = 2

\* ------------------------------------------------------------------ C29
\* On an initialized logger deinit hands every buffered message, oldest
\* first, to aic_log_process and leaves the logger uninitialized with an
\* empty buffer; on an uninitialized logger process, flush and deinit
\* change nothing and take nothing out.
C29_State ==
    /\ log_initialized =>
          LET d == aic_log_deinit(Log)
          IN /\ d.out = LogQueueSeq(Log)
             /\ aic_log_queue_count(d.log) = 0
             /\ d.log.buf_head = 0
             /\ d.log.buf_tail = 0
             /\ ~d.log.log_initialized
    /\ ~log_initialized =>
          /\ aic_log_process(Log) = [log |-> Log, out |-> <<>>]
          /\ aic_log_flush(Log) = [log |-> Log, out |-> <<>>]
          /\ aic_log_deinit(Log) = [log |-> Log, out |-> <<>>]
          /\ aic_log_queue_count(Log) = 0

\* A deinit step on an initialized logger takes out exactly what was
\* buffered; a process, flush or deinit step on an uninitialized one takes
\* out nothing and leaves the statics alone.
C29_Step ==
    /\ (log_initialized /\ llast'.op = "deinit") =>
          /\ processed' = LogQueueSeq(Log)
          /\ buf_count' = 0
          /\ ~log_initialized'
    /\ (~log_initialized /\ llast'.op \in {"process", "flush", "deinit"}) =>
          /\ processed' = <<>>
          /\ Log' = Log

\* C29: aic_log_deinit on an initialized logger first drains every
\* buffered message through aic_log_process, while the logger is still
\* initialized, and only then resets the buffer and clears the flag, so no
\* buffered message is discarded unprocessed and the count is 0 afterwards;
\* aic_log_process and aic_log_flush on an uninitialized logger do nothing.
C29_LogTeardown == []C29_State /\ [][C29_Step]_vars

\* deinit has just drained a full buffer.
C29_Witness ==
    /\ llast.op = "deinit"
    /\ ~log_initialized
    /\ Len(processed) = AIC_LOG_QUEUE_SIZE
    /\ aic_log_queue_count(Log) = 0
    /\ processed[1] # processed[2]

\* ------------------------------------------------------------------ C30
\* C30: in every reachable state buffer_head and buffer_tail are below
\* AIC_EVENT_QUEUE_SIZE and buffer_head = (buffer_tail + buffer_count) mod
\* AIC_EVENT_QUEUE_SIZE, so head = tail exactly when the queue is empty or
\* full, the count telling which; push and pop keep it so.
C30_RingConsistency ==
    /\ buffer_head \in 0 .. (AIC_EVENT_QUEUE_SIZE - 1)
    /\ buffer_tail \in 0 .. (AIC_EVENT_QUEUE_SIZE - 1)
    /\ buffer_count \in 0 .. AIC_EVENT_QUEUE_SIZE
    /\ buffer_head = (buffer_tail + buffer_count) % AIC_EVENT_QUEUE_SIZE
    /\ buffer_head = buffer_tail <=> buffer_count \in {0, AIC_EVENT_QUEUE_SIZE}
    /\ LET p == buffer_pop(Bus).bus
           q == buffer_push(Bus, ZeroEntry).bus
       IN /\ p.buffer_head = (p.buffer_tail + p.buffer_count) % AIC_EVENT_QUEUE_SIZE
          /\ q.buffer_head = (q.buffer_tail + q.buffer_count) % AIC_EVENT_QUEUE_SIZE
          /\ p.buffer_tail < AIC_EVENT_QUEUE_SIZE
          /\ q.buffer_head < AIC_EVENT_QUEUE_SIZE

\* A publish has just filled the queue, with head and tail meeting at a
\* cell other than 0: the indices have wrapped.
C30_Witness ==
    /\ pc = "idle"
    /\ last.op = "publish"
    /\ last.ret = "true"
    /\ buffer_count = AIC_EVENT_QUEUE_SIZE
    /\ buffer_head = buffer_tail
    /\ buffer_tail # 0

====
